---- MODULE Spec2Model ----
(***************************************************************************)
(* Model of the exostream daemon: its stream supervisor                    *)
(* (StreamingService), its encoder driver (FFmpegEncoder), the persistent  *)
(* state store (StateManager) with its state directory, the JSON-RPC wire  *)
(* protocol (RPCRequest, RPCResponse), the two listeners (IPCServer,       *)
(* TCPControlServer) with their handler tables, the life cycle of the     *)
(* daemon (ExostreamDaemon.start, stop), and the discovery of peers on the *)
(* network (ExostreamServiceDiscovery).                                    *)
(*                                                                         *)
(* Every block guarded by `with self._state_lock` or by the state store's  *)
(* `with self._lock` is one atomic step; everything a request thread does  *)
(* between two such blocks is attached to the neighbouring step when it    *)
(* touches only thread-local data.  Request threads, encoder worker        *)
(* threads and encoder child processes interleave freely.                  *)
(*                                                                         *)
(* Text is modelled as a sequence of one-character strings so that         *)
(* str.split('x'), int() and f"{width}x{height}" are computed, not assumed.*)
(* JSON text is a sequence of lexical units; json.dumps and json.loads are *)
(* computed on it.                                                         *)
(*                                                                         *)
(* Specifications:                                                         *)
(*   Spec      a fresh daemon; every request on two devices                *)
(*   SpecPar   a fresh daemon; each client starts streams on its own camera*)
(*   SpecCap   two streams running; start requests only                    *)
(*   SpecStop  two streams running; stop requests only                     *)
(*   SpecRpc   two streams running; one client of the RPC interface        *)
(*   SpecRestart  two streams running; one caller of restart_streaming     *)
(*   SpecCodec clients of the client library on both listeners             *)
(*   SpecConn  clients that write any bytes, in any chunks                 *)
(*   SpecStore the state store: writers, saves in steps, kill and restart  *)
(*   SpecLoad  the state store constructed on any state file               *)
(*   SpecDown  the daemon from start() to the end of stop()                *)
(*   SpecDisc  discovery: beacons of two peers, the sweep, seconds counted *)
(*   SpecRecv  discovery: any datagram, well-formed or not                 *)
(*   SpecKid   FFmpegEncoder.stop step by step, with concurrent callers    *)
(*   SpecHealth  two streams running; health checks, stops, children exit  *)
(*   SpecLaunch  a daemon launched over the state file of an earlier run   *)
(*   SpecRace  two streams running; restarts and starts of one device      *)
(*   SpecLock  the lock of the stream table, acquire by acquire, with      *)
(*             weak fairness of the scheduler                              *)
(***************************************************************************)
EXTENDS Integers, Sequences, FiniteSets, TLC

\* -------------------------------------------------------------------------
\* Bounds of the model
\* -------------------------------------------------------------------------
MaxCalls == 2
WarmCalls == 2
MaxExits == 1
NumThreads == 2
NumConns == 2
FlushUnits == 16
MaxTime == 15
ShortTime == 3
MaxStops == 2
MaxBeacons == 3
MaxCallbackTime == 1

\* -------------------------------------------------------------------------
\* Program constants
\* -------------------------------------------------------------------------
MAX_STREAMS == 3

\* IPCServer.BUFFER_SIZE, TCPControlServer.BUFFER_SIZE
BUFFER_SIZE == 4096

\* RPCError (protocol.py)
PARSE_ERROR == -32700
INVALID_REQUEST == -32600
METHOD_NOT_FOUND == -32601
INTERNAL_ERROR == -32603
STREAM_ALREADY_RUNNING == -32000
STREAM_NOT_RUNNING == -32001
DEVICE_NOT_FOUND == -32002
INVALID_CONFIGURATION == -32004
FFMPEG_ERROR == -32005

\* discovery.py: seconds without a beacon before a peer counts as offline, and
\* the sleep of the cleanup loop
DISCOVERY_TIMEOUT == 10
SWEEP_PERIOD == 2
DISCOVERY_MESSAGE_TYPE == "EXOSTREAM_ANNOUNCEMENT"

Threads == 1..NumThreads

Conns == 1..NumConns

Video0 == "/dev/video0"
Video1 == "/dev/video1"
Video2 == "/dev/video2"
Video3 == "/dev/video3"
Video4 == "/dev/video4"
\* what WebcamManager.detect_devices() finds on the host
Devices == {Video0, Video1, Video2, Video3, Video4}

NoDevice == "None"
None == "None"

STOPPED == "stopped"
STARTING == "starting"
RUNNING == "running"
STOPPING == "stopping"
ERROR == "error"

\* -------------------------------------------------------------------------
\* Text: str.split('x'), int(), f"{n}"
\* -------------------------------------------------------------------------
Digits == <<"0", "1", "2", "3", "4", "5", "6", "7", "8", "9">>

IsDigit(c) == \E i \in 1..10 : Digits[i] = c

DigitVal(c) == (CHOOSE i \in 1..10 : Digits[i] = c) - 1

\* 'x' in s
ContainsX(s) == \E i \in 1..Len(s) : s[i] = "x"

\* s.split('x'): the list of maximal pieces between the separators
RECURSIVE SplitFrom(_, _, _)
SplitFrom(s, i, cur) ==
    IF i > Len(s) THEN <<cur>>
    ELSE IF s[i] = "x" THEN <<cur>> \o SplitFrom(s, i + 1, <<>>)
    ELSE SplitFrom(s, i + 1, Append(cur, s[i]))

split_x(s) == SplitFrom(s, 1, <<>>)

\* int(s) raises ValueError unless s is an optional sign followed by digits
IsIntText(s) ==
    LET body == IF Len(s) > 0 /\ s[1] \in {"-", "+"} THEN Tail(s) ELSE s
    IN  Len(body) > 0 /\ \A i \in 1..Len(body) : IsDigit(body[i])

RECURSIVE DigitsVal(_, _)
DigitsVal(s, acc) ==
    IF s = <<>> THEN acc ELSE DigitsVal(Tail(s), acc * 10 + DigitVal(Head(s)))

int(s) ==
    IF s[1] = "-" THEN 0 - DigitsVal(Tail(s), 0)
    ELSE IF s[1] = "+" THEN DigitsVal(Tail(s), 0)
    ELSE DigitsVal(s, 0)

\* f"{n}"
RECURSIVE NatText(_)
NatText(n) ==
    IF n < 10 THEN <<Digits[n + 1]>>
    ELSE Append(NatText(n \div 10), Digits[(n % 10) + 1])

IntText(n) == IF n < 0 THEN <<"-">> \o NatText(0 - n) ELSE NatText(n)

\* `width, height = map(int, resolution.split('x'))` succeeds
ResolutionParses(res) ==
    LET parts == split_x(res)
    IN  Len(parts) = 2 /\ IsIntText(parts[1]) /\ IsIntText(parts[2])

from_resolution_string(res) ==
    LET parts == split_x(res)
    IN  [width |-> int(parts[1]), height |-> int(parts[2])]

\* VideoConfig.resolution
resolution(width, height) == IntText(width) \o <<"x">> \o IntText(height)

\* -------------------------------------------------------------------------
\* JSON: json.dumps and json.loads
\*
\* A JSON text is a sequence of lexical units: each punctuation character, each
\* literal (null, true, false, a number, a quoted string) and the newline are
\* one unit.  A JSON value carries its Python type in the field t.
\* -------------------------------------------------------------------------
Tok(k) == [k |-> k]

TStr(s) == [k |-> "str", s |-> s]

TNum(n) == [k |-> "num", n |-> n]

\* a quoted string whose characters the model spells out (a Text)
TText(x) == [k |-> "text", x |-> x]

JNull == [t |-> "null"]

JBool(b) == [t |-> "bool", b |-> b]

JNum(n) == [t |-> "num", n |-> n]

JStr(s) == [t |-> "str", s |-> s]

JText(x) == [t |-> "text", x |-> x]

JArr(a) == [t |-> "arr", a |-> a]

\* a dict: its items in insertion order
JObj(items) == [t |-> "obj", o |-> items]

Item(key, val) == [key |-> key, val |-> val]

\* key in d
HasKey(d, key) == \E i \in 1..Len(d.o) : d.o[i].key = key

\* d[key]
GetItem(d, key) == d.o[CHOOSE i \in 1..Len(d.o) : d.o[i].key = key].val

\* d.get(key, default)
JGet(d, key, dflt) == IF HasKey(d, key) THEN GetItem(d, key) ELSE dflt

\* d[key] = val: an existing key keeps its position
SetItem(items, key, val) ==
    IF \E i \in 1..Len(items) : items[i].key = key
    THEN [items EXCEPT ![CHOOSE i \in 1..Len(items) : items[i].key = key].val = val]
    ELSE Append(items, Item(key, val))

RECURSIVE json_dumps(_), DumpItems(_), DumpElements(_)
json_dumps(v) ==
    CASE v.t = "null" -> <<Tok("null")>>
      [] v.t = "bool" -> <<Tok(IF v.b THEN "true" ELSE "false")>>
      [] v.t = "num" -> <<TNum(v.n)>>
      [] v.t = "str" -> <<TStr(v.s)>>
      [] v.t = "text" -> <<TText(v.x)>>
      [] v.t = "arr" -> <<Tok("[")>> \o DumpElements(v.a) \o <<Tok("]")>>
      [] v.t = "obj" -> <<Tok("{")>> \o DumpItems(v.o) \o <<Tok("}")>>

DumpItems(items) ==
    IF items = <<>> THEN <<>>
    ELSE <<TStr(Head(items).key), Tok(":")>> \o json_dumps(Head(items).val)
         \o (IF Len(items) > 1 THEN <<Tok(",")>> \o DumpItems(Tail(items)) ELSE <<>>)

DumpElements(a) ==
    IF a = <<>> THEN <<>>
    ELSE json_dumps(Head(a))
         \o (IF Len(a) > 1 THEN <<Tok(",")>> \o DumpElements(Tail(a)) ELSE <<>>)

\* the result of a parse that raises JSONDecodeError
ParseFail == [ok |-> FALSE, v |-> JNull, i |-> 0]

Parsed(v, i) == [ok |-> TRUE, v |-> v, i |-> i]

\* the decoder at position i of text w: the value and the position after it
RECURSIVE ParseValue(_, _), ParseItems(_, _, _), ParseElements(_, _, _)
ParseValue(w, i) ==
    IF i > Len(w) THEN ParseFail
    ELSE CASE w[i].k = "null" -> Parsed(JNull, i + 1)
           [] w[i].k = "true" -> Parsed(JBool(TRUE), i + 1)
           [] w[i].k = "false" -> Parsed(JBool(FALSE), i + 1)
           [] w[i].k = "num" -> Parsed(JNum(w[i].n), i + 1)
           [] w[i].k = "str" -> Parsed(JStr(w[i].s), i + 1)
           [] w[i].k = "text" -> Parsed(JText(w[i].x), i + 1)
           [] w[i].k = "[" ->
                IF i + 1 <= Len(w) /\ w[i + 1].k = "]" THEN Parsed(JArr(<<>>), i + 2)
                ELSE ParseElements(w, i + 1, <<>>)
           [] w[i].k = "{" ->
                IF i + 1 <= Len(w) /\ w[i + 1].k = "}" THEN Parsed(JObj(<<>>), i + 2)
                ELSE ParseItems(w, i + 1, <<>>)
           [] OTHER -> ParseFail

\* the items of an object from position i on: "key" : value, then , or }
ParseItems(w, i, acc) ==
    IF i + 1 > Len(w) \/ w[i].k # "str" \/ w[i + 1].k # ":" THEN ParseFail
    ELSE LET r == ParseValue(w, i + 2)
         IN  IF ~r.ok \/ r.i > Len(w) THEN ParseFail
             ELSE IF w[r.i].k = "}" THEN Parsed(JObj(SetItem(acc, w[i].s, r.v)), r.i + 1)
             ELSE IF w[r.i].k = "," THEN ParseItems(w, r.i + 1, SetItem(acc, w[i].s, r.v))
             ELSE ParseFail

ParseElements(w, i, acc) ==
    LET r == ParseValue(w, i)
    IN  IF ~r.ok \/ r.i > Len(w) THEN ParseFail
        ELSE IF w[r.i].k = "]" THEN Parsed(JArr(Append(acc, r.v)), r.i + 1)
        ELSE IF w[r.i].k = "," THEN ParseElements(w, r.i + 1, Append(acc, r.v))
        ELSE ParseFail

\* white space between the units of a text is skipped
IsSpace(u) == u.k = "\n"

SkipSpace(w) == SelectSeq(w, LAMBDA u : ~IsSpace(u))

\* json.loads: one value and nothing after it, or JSONDecodeError
json_loads(text) ==
    LET w == SkipSpace(text)
        r == ParseValue(w, 1)
    IN  IF r.ok /\ r.i = Len(w) + 1 THEN r ELSE ParseFail

\* -------------------------------------------------------------------------
\* The wire protocol (protocol.py): RPCRequest and RPCResponse
\* -------------------------------------------------------------------------
RPCRequest(method, params, id) ==
    [method |-> method, params |-> params, id |-> id, jsonrpc |-> JStr("2.0")]

NoRequest == RPCRequest(JNull, JNull, JNull)

\* json.dumps(asdict(self))
RPCRequest_to_json(req) ==
    json_dumps(JObj(<<Item("method", req.method), Item("params", req.params),
                      Item("id", req.id), Item("jsonrpc", req.jsonrpc)>>))

\* json.loads raises JSONDecodeError; obj['method'] raises TypeError when obj
\* is not a dict and KeyError when the key is missing
RPCRequest_from_json(data) ==
    LET r == json_loads(data)
    IN  IF ~r.ok THEN [raised |-> "JSONDecodeError", req |-> NoRequest]
        ELSE IF r.v.t # "obj" THEN [raised |-> "TypeError", req |-> NoRequest]
        ELSE IF ~HasKey(r.v, "method") THEN [raised |-> "KeyError", req |-> NoRequest]
        ELSE [raised |-> "none",
              req |-> [method |-> GetItem(r.v, "method"),
                       params |-> JGet(r.v, "params", JObj(<<>>)),
                       id |-> JGet(r.v, "id", JNull),
                       jsonrpc |-> JGet(r.v, "jsonrpc", JStr("2.0"))]]

RPCResponse(result, error, id) ==
    [result |-> result, error |-> error, id |-> id, jsonrpc |-> JStr("2.0")]

NoResponse == RPCResponse(JNull, JNull, JNull)

\* a to_json that writes both keys whatever the response is
RPCResponse_to_dict_both(resp) ==
    JObj(<<Item("jsonrpc", resp.jsonrpc), Item("id", resp.id),
           Item("error", resp.error), Item("result", resp.result)>>)

\* the dict of to_json: jsonrpc, id, then error when there is one, else result
RPCResponse_to_dict(resp) ==
    JObj(<<Item("jsonrpc", resp.jsonrpc), Item("id", resp.id),
           IF resp.error # JNull THEN Item("error", resp.error)
           ELSE Item("result", resp.result)>>)

RPCResponse_to_json(resp) == json_dumps(RPCResponse_to_dict(resp))

\* obj.get raises AttributeError when obj is not a dict
RPCResponse_from_json(data) ==
    LET r == json_loads(data)
    IN  IF ~r.ok THEN [raised |-> "JSONDecodeError", resp |-> NoResponse]
        ELSE IF r.v.t # "obj" THEN [raised |-> "AttributeError", resp |-> NoResponse]
        ELSE [raised |-> "none",
              resp |-> [result |-> JGet(r.v, "result", JNull),
                        error |-> JGet(r.v, "error", JNull),
                        id |-> JGet(r.v, "id", JNull),
                        jsonrpc |-> JGet(r.v, "jsonrpc", JStr("2.0"))]]

\* RPCResponse.success
success(result, request_id) == RPCResponse(result, JNull, request_id)

\* RPCResponse.error_response: data is left out when it is None
error_response(code, message, data, request_id) ==
    RPCResponse(JNull,
                JObj(<<Item("code", JNum(code)), Item("message", JStr(message))>>
                     \o (IF data # JNull THEN <<Item("data", data)>> ELSE <<>>)),
                request_id)

create_error_response(code, message, data, request_id) ==
    error_response(code, message, data, request_id)

\* -------------------------------------------------------------------------
\* Request inputs
\* -------------------------------------------------------------------------
T1920x1080 == <<"1", "9", "2", "0", "x", "1", "0", "8", "0">>
T0640x480 == <<"0", "6", "4", "0", "x", "4", "8", "0">>
T640x480 == <<"6", "4", "0", "x", "4", "8", "0">>
T5000x480 == <<"5", "0", "0", "0", "x", "4", "8", "0">>
T0x480 == <<"0", "x", "4", "8", "0">>
T1080p == <<"1", "0", "8", "0">>

NoCfg == [name |-> None, resolution |-> <<>>, fps |-> 0, raw_input |-> FALSE, groups |-> None]

\* StartStreamParams defaults
CfgDefault == [name |-> "exostream", resolution |-> T1920x1080, fps |-> 30,
               raw_input |-> FALSE, groups |-> None]
\* a second valid request whose resolution text is not in canonical form
CfgStudio == [name |-> "Cam", resolution |-> T0640x480, fps |-> 60,
              raw_input |-> TRUE, groups |-> "studio"]
CfgFps999 == [CfgDefault EXCEPT !.fps = 999]
CfgTooLarge == [CfgDefault EXCEPT !.resolution = T5000x480]
CfgZeroWidth == [CfgDefault EXCEPT !.resolution = T0x480]
CfgNoX == [CfgDefault EXCEPT !.resolution = T1080p]

\* -------------------------------------------------------------------------
\* State
\* -------------------------------------------------------------------------
VARIABLES
    streams,    \* StreamingService._streams: rows in dict order
    encoders,   \* the FFmpegEncoder objects created so far
    workers,    \* the encoder threads (worker i was created with encoder i)
    procs,      \* the ffmpeg child of each worker; its pid is the worker's index
    ffmpeg,     \* whether the ffmpeg binary is installed on the host
    sm_state,   \* StateManager._state
    th,         \* request threads: position and locals
    out,        \* the outcome a request thread delivered in the last step
    calls,      \* number of requests still to be issued
    exits,      \* number of child processes that may still exit by themselves
    liveStarts, \* history: devices started successfully with no stop path run since
    stoppedAll, \* history: stop_streaming() has returned and no start has run since
    files,      \* the state directory: state.json and state.tmp
    sm_lock,    \* StateManager._lock: the thread that holds it, or 0
    conns,      \* the client connections of the listeners
    daemon,     \* ExostreamDaemon: _running, the listeners and their method tables
    disc,       \* ExostreamServiceDiscovery: the peer table, its two loops, the clock
    kid,        \* one FFmpegEncoder with its child process and the callers of stop()
    lk          \* StreamingService._state_lock: its owner and where each thread is

vars == <<streams, encoders, workers, procs, ffmpeg, sm_state, th, out, calls, exits,
          liveStarts, stoppedAll, files, sm_lock, conns, daemon, disc, kid, lk>>

\* dict.get(key, default)
Get(d, k, dflt) == IF k \in DOMAIN d THEN d[k] ELSE dflt

\* ---- the stream table (a dict keyed by device path) ----
HasRow(tbl, d) == \E i \in 1..Len(tbl) : tbl[i].dev = d

RowIdx(tbl, d) == CHOOSE i \in 1..Len(tbl) : tbl[i].dev = d

Row(tbl, d) == tbl[RowIdx(tbl, d)]

\* self._streams[device] = {...}: an existing key keeps its position
SetRow(tbl, r) ==
    IF HasRow(tbl, r.dev) THEN [tbl EXCEPT ![RowIdx(tbl, r.dev)] = r]
    ELSE Append(tbl, r)

\* self._streams[device]["state"] = s, guarded by `if device in self._streams`
SetRowState(tbl, d, s) ==
    IF HasRow(tbl, d) THEN [tbl EXCEPT ![RowIdx(tbl, d)].state = s] ELSE tbl

RECURSIVE DropDev(_, _)
DropDev(tbl, d) ==
    IF tbl = <<>> THEN <<>>
    ELSE IF Head(tbl).dev = d THEN DropDev(Tail(tbl), d)
    ELSE <<Head(tbl)>> \o DropDev(Tail(tbl), d)

cleanup_stream(tbl, d) == DropDev(tbl, d)

Keys(tbl) == [i \in 1..Len(tbl) |-> tbl[i].dev]

KeySet(tbl) == {tbl[i].dev : i \in 1..Len(tbl)}

\* ---- the state store ----
default_state ==
    [daemon |-> [started_at |-> None, pid |-> 0],
     streams |-> <<>>,
     last_config |-> [device |-> Video0, resolution |-> T1920x1080,
                      fps |-> 30, raw_input |-> FALSE]]

\* set_streaming_active called without its raw_input argument, which then
\* takes its default
set_streaming_active_default_raw(st, c, pid) ==
    [st EXCEPT
        !.streams = (c.device :> [active |-> TRUE,
                                  stream_name |-> c.name,
                                  device |-> c.device,
                                  resolution |-> resolution(c.width, c.height),
                                  fps |-> c.fps,
                                  raw_input |-> FALSE,
                                  groups |-> c.groups,
                                  ffmpeg_pid |-> pid]) @@ st.streams,
        !.last_config = [device |-> c.device,
                         resolution |-> resolution(c.width, c.height),
                         fps |-> c.fps,
                         raw_input |-> FALSE]]

\* c is the StreamConfig of the stream (with raw_input), pid the child's pid
set_streaming_active(st, c, pid) ==
    [st EXCEPT
        !.streams = (c.device :> [active |-> TRUE,
                                  stream_name |-> c.name,
                                  device |-> c.device,
                                  resolution |-> resolution(c.width, c.height),
                                  fps |-> c.fps,
                                  raw_input |-> c.raw_input,
                                  groups |-> c.groups,
                                  ffmpeg_pid |-> pid]) @@ st.streams,
        !.last_config = [device |-> c.device,
                         resolution |-> resolution(c.width, c.height),
                         fps |-> c.fps,
                         raw_input |-> c.raw_input]]

\* lines 103-108; now is datetime.now().isoformat()
set_daemon_started(st, pid, now) ==
    [st EXCEPT !.daemon = [started_at |-> now, pid |-> pid]]

set_streaming_inactive(st, d) ==
    IF d # NoDevice
    THEN IF d \in DOMAIN st.streams
         THEN [st EXCEPT !.streams = [x \in (DOMAIN st.streams) \ {d} |-> st.streams[x]]]
         ELSE st
    ELSE [st EXCEPT !.streams = <<>>]

get_all_streams(st) == st.streams

\* StreamConfig(video=VideoConfig.from_resolution_string(resolution, fps=fps),
\*              ndi=NDIConfig(stream_name=name, groups=groups), device=device)
StreamConfig(device, c) ==
    LET v == from_resolution_string(c.resolution)
    IN  [device |-> device, name |-> c.name, width |-> v.width, height |-> v.height,
         fps |-> c.fps, raw_input |-> c.raw_input, groups |-> c.groups]

\* -------------------------------------------------------------------------
\* The state directory: state.json and state.tmp (StateManager._load, _save)
\* -------------------------------------------------------------------------
NoFile == [exists |-> FALSE, text |-> <<>>]

File(text) == [exists |-> TRUE, text |-> text]

\* the devices in the order the model writes the keys of "streams"
DeviceOrder == <<Video0, Video1, Video2, Video3, Video4>>

OptStr(x) == IF x = None THEN JNull ELSE JStr(x)

StrOpt(v) == IF v = JNull THEN None ELSE v.s

\* pid 0 stands for None
OptPid(n) == IF n = 0 THEN JNull ELSE JNum(n)

PidOpt(v) == IF v = JNull THEN 0 ELSE v.n

\* one entry of _state["streams"] (its started_at time stamp is left out)
stream_doc(e) ==
    JObj(<<Item("active", JBool(e.active)),
           Item("stream_name", JStr(e.stream_name)),
           Item("device", JStr(e.device)),
           Item("resolution", JText(e.resolution)),
           Item("fps", JNum(e.fps)),
           Item("raw_input", JBool(e.raw_input)),
           Item("groups", OptStr(e.groups)),
           Item("ffmpeg_pid", OptPid(e.ffmpeg_pid))>>)

stream_from_doc(v) ==
    [active |-> GetItem(v, "active").b,
     stream_name |-> GetItem(v, "stream_name").s,
     device |-> GetItem(v, "device").s,
     resolution |-> GetItem(v, "resolution").x,
     fps |-> GetItem(v, "fps").n,
     raw_input |-> GetItem(v, "raw_input").b,
     groups |-> StrOpt(GetItem(v, "groups")),
     ffmpeg_pid |-> PidOpt(GetItem(v, "ffmpeg_pid"))]

RECURSIVE streams_doc(_, _)
streams_doc(tbl, order) ==
    IF order = <<>> THEN <<>>
    ELSE (IF Head(order) \in DOMAIN tbl
          THEN <<Item(Head(order), stream_doc(tbl[Head(order)]))>> ELSE <<>>)
         \o streams_doc(tbl, Tail(order))

\* the dict _state as a JSON value
state_doc(st) ==
    JObj(<<Item("version", JStr("0.3.0")),
           Item("daemon", JObj(<<Item("started_at", OptStr(st.daemon.started_at)),
                                 Item("pid", OptPid(st.daemon.pid))>>)),
           Item("streams", JObj(streams_doc(st.streams, DeviceOrder))),
           Item("last_config",
                JObj(<<Item("device", JStr(st.last_config.device)),
                       Item("resolution", JText(st.last_config.resolution)),
                       Item("fps", JNum(st.last_config.fps)),
                       Item("raw_input", JBool(st.last_config.raw_input))>>))>>)

\* a JSON value that has the sections the store's operations subscript
IsStateDoc(v) ==
    /\ v.t = "obj"
    /\ HasKey(v, "daemon") /\ GetItem(v, "daemon").t = "obj"
    /\ HasKey(GetItem(v, "daemon"), "started_at") /\ HasKey(GetItem(v, "daemon"), "pid")
    /\ HasKey(v, "streams") /\ GetItem(v, "streams").t = "obj"
    /\ HasKey(v, "last_config") /\ GetItem(v, "last_config").t = "obj"

state_from_doc(v) ==
    LET d == GetItem(v, "daemon")
        ss == GetItem(v, "streams").o
        lc == GetItem(v, "last_config")
    IN  [daemon |-> [started_at |-> StrOpt(GetItem(d, "started_at")),
                     pid |-> PidOpt(GetItem(d, "pid"))],
         streams |-> [x \in {ss[i].key : i \in 1..Len(ss)} |->
                        stream_from_doc(GetItem(GetItem(v, "streams"), x))],
         last_config |-> [device |-> GetItem(lc, "device").s,
                          resolution |-> GetItem(lc, "resolution").x,
                          fps |-> GetItem(lc, "fps").n,
                          raw_input |-> GetItem(lc, "raw_input").b]]

\* _state when json.load returned a value that is not a state document
RawState(v) == [raw |-> v]

IsRaw(st) == "raw" \in DOMAIN st

\* json.dump(self._state, f)
state_text(st) == json_dumps(IF IsRaw(st) THEN st.raw ELSE state_doc(st))

\* _load when the file exists: json.load, and the default state when it raises
load_file(f) ==
    LET r == json_loads(f.text)
    IN  IF ~r.ok THEN default_state
        ELSE IF IsStateDoc(r.v) THEN state_from_doc(r.v)
        ELSE RawState(r.v)

\* _save in one step: the temp file is written and renamed over state.json
save(fs, st) == [fs EXCEPT !.state = File(state_text(st)), !.tmp = NoFile]

\* the state directory after a save of st
StateDir(st) == [state |-> File(state_text(st)), tmp |-> NoFile]

\* ---- the daemon and its listeners ----
\* _running, network_config.enabled, IPCServer.running, TCPControlServer.running,
\* where the main thread is, whether a shutdown thread has been spawned, and
\* whether stop() has returned
CreatedDaemon(enabled) ==
    [running |-> FALSE, enabled |-> enabled, ipc |-> FALSE, tcp |-> FALSE,
     main |-> "init", asked |-> FALSE, stopped |-> FALSE]

\* the daemon in its main loop
RunningDaemon(enabled) ==
    [CreatedDaemon(enabled) EXCEPT !.running = TRUE, !.ipc = TRUE, !.tcp = enabled,
                                   !.main = "loop"]

\* bytes.decode('utf-8') raises UnicodeDecodeError
Undecodable(data) == \E i \in 1..Len(data) : data[i].k = "byte"

\* -------------------------------------------------------------------------
\* Service discovery (discovery.py): ExostreamServiceDiscovery
\*
\* Time is counted in whole seconds.  An entry of the peer table keeps the
\* fields of ExostreamServiceInfo as the JSON values the announcement gave.
\* -------------------------------------------------------------------------
\* the truth value of a JSON value, as all([...]) takes it
Truthy(v) ==
    CASE v.t = "null" -> FALSE
      [] v.t = "bool" -> v.b
      [] v.t = "num" -> v.n # 0
      [] v.t = "str" -> v.s # ""
      [] v.t = "text" -> v.x # <<>>
      [] v.t = "arr" -> v.a # <<>>
      [] v.t = "obj" -> v.o # <<>>

\* f"{v}" for the values a host or a port is given as
Format(v) ==
    CASE v.t = "text" -> v.x
      [] v.t = "num" -> IntText(v.n)
      [] v.t = "bool" -> IF v.b THEN <<"T", "r", "u", "e">> ELSE <<"F", "a", "l", "s", "e">>
      [] OTHER -> <<"N", "o", "n", "e">>

\* service_key = f"{host}:{port}"
service_key(host, port) == Format(host) \o <<":">> \o Format(port)

\* the test of the fields without the port
all_present_but_port(a) ==
    /\ Truthy(JGet(a, "name", JNull))
    /\ Truthy(JGet(a, "hostname", JNull))
    /\ Truthy(JGet(a, "host", JNull))

\* line 256: all([name, hostname, host, port])
all_present(a) ==
    /\ Truthy(JGet(a, "name", JNull))
    /\ Truthy(JGet(a, "hostname", JNull))
    /\ Truthy(JGet(a, "host", JNull))
    /\ Truthy(JGet(a, "port", JNull))

\* lines 240-256: what the receive loop makes of a datagram: an announcement,
\* unless the decode raises, the type is another or a field is missing or
\* empty
IsAnnouncement(data) ==
    LET p == json_loads(data)
    IN  /\ ~Undecodable(data)
        /\ p.ok
        /\ p.v.t = "obj"
        /\ JGet(p.v, "type", JNull) = JStr(DISCOVERY_MESSAGE_TYPE)
        /\ all_present(p.v)

\* lines 250-254 and 268-286: announcement.get(...) of each field and the
\* ExostreamServiceInfo of an announcement received at time now
ServiceInfo(a, now) ==
    [key |-> service_key(JGet(a, "host", JNull), JGet(a, "port", JNull)),
     name |-> JGet(a, "name", JNull), hostname |-> JGet(a, "hostname", JNull),
     host |-> JGet(a, "host", JNull), port |-> JGet(a, "port", JNull),
     version |-> JGet(a, "version", JStr("unknown")), last_seen |-> now]

HasService(tbl, key) == \E i \in 1..Len(tbl) : tbl[i].key = key

\* self.services[service_key] = ...: an existing key keeps its position
SetService(tbl, svc) ==
    IF HasService(tbl, svc.key)
    THEN [tbl EXCEPT ![CHOOSE i \in 1..Len(tbl) : tbl[i].key = svc.key] = svc]
    ELSE Append(tbl, svc)

\* line 323: now - service.last_seen > DISCOVERY_TIMEOUT
Stale(svc, now) == now - svc.last_seen > DISCOVERY_TIMEOUT

NoEvent == [type |-> "none", key |-> <<>>]

Event(type, key) == [type |-> type, key |-> key]

\* the object after __init__ (lines 174-189): not running, no peers; received
\* counts the datagrams taken from the socket, gone the entries the cleanup
\* loop has deleted and events lists the calls of the callback since start(),
\* horizon is the time the object is followed for
Discovery(callback, horizon) ==
    [running |-> FALSE, callback |-> callback, now |-> 0, horizon |-> horizon,
     services |-> <<>>,
     listen |-> [pc |-> "none", data |-> <<>>, event |-> NoEvent, until |-> 0],
     sweep |-> [pc |-> "none", removed |-> <<>>, wake |-> 0, until |-> 0],
     events |-> <<>>, received |-> 0, gone |-> 0]

NoDiscovery == Discovery(FALSE, 0)

\* lines 191-227: start()
discovery_start ==
    /\ ~disc.running
    /\ disc.listen.pc = "none"
    /\ disc.sweep.pc = "none"
    /\ disc' = [disc EXCEPT !.running = TRUE, !.listen.pc = "recv", !.sweep.pc = "sweep",
                            !.events = <<>>, !.gone = 0]
    /\ UNCHANGED <<streams, encoders, workers, procs, ffmpeg, kid, lk, sm_state, th, out, calls,
                   exits, liveStarts, stoppedAll, files, sm_lock, conns, daemon>>

\* lines 233-293: recvfrom returns a datagram; it is decoded and checked, and
\* an announcement is put into the table under the lock
listen_recv(data) ==
    LET a == json_loads(data).v
        svc == ServiceInfo(a, disc.now)
    IN  /\ disc.running
        /\ disc.listen.pc = "recv"
        /\ disc.received < MaxBeacons
        /\ IF ~IsAnnouncement(data)
           THEN disc' = [disc EXCEPT !.received = @ + 1, !.listen.data = data,
                                     !.listen.event = NoEvent]
           ELSE disc' = [disc EXCEPT
                    !.received = @ + 1,
                    !.services = SetService(@, svc),
                    !.listen = [pc |-> IF disc.callback THEN "callback" ELSE "recv",
                                data |-> data,
                                event |-> Event(IF HasService(disc.services, svc.key)
                                                THEN "updated" ELSE "added", svc.key),
                                until |-> disc.now + MaxCallbackTime]]
        /\ UNCHANGED <<streams, encoders, workers, procs, ffmpeg, kid, lk, sm_state, th, out, calls,
                       exits, liveStarts, stoppedAll, files, sm_lock, conns, daemon>>

\* lines 295-300: the callback is called outside the lock; what it raises is
\* logged
listen_callback ==
    /\ disc.listen.pc = "callback"
    /\ disc' = [disc EXCEPT !.events = Append(@, disc.listen.event),
                            !.listen.pc = IF disc.running THEN "recv" ELSE "none"]
    /\ UNCHANGED <<streams, encoders, workers, procs, ffmpeg, kid, lk, sm_state, th, out, calls,
                   exits, liveStarts, stoppedAll, files, sm_lock, conns, daemon>>

\* the cleanup loop goes to sleep (line 341) or, with entries to report, to
\* its callbacks
AfterSweep(sw, removed, callback, now) ==
    IF callback /\ removed # <<>>
    THEN [sw EXCEPT !.pc = "callback", !.removed = removed, !.until = now + MaxCallbackTime]
    ELSE [sw EXCEPT !.pc = "sleep", !.removed = <<>>, !.wake = now + SWEEP_PERIOD]

\* lines 317-325: one sweep under the lock
cleanup_sweep ==
    LET removed == SelectSeq(disc.services, LAMBDA svc : Stale(svc, disc.now))
    IN  /\ disc.running
        /\ disc.sweep.pc = "sweep"
        /\ disc' = [disc EXCEPT
                 !.services = SelectSeq(@, LAMBDA svc : ~Stale(svc, disc.now)),
                 !.gone = @ + Len(removed),
                 !.sweep = AfterSweep(@, removed, disc.callback, disc.now)]
        /\ UNCHANGED <<streams, encoders, workers, procs, ffmpeg, kid, lk, sm_state, th, out, calls,
                       exits, liveStarts, stoppedAll, files, sm_lock, conns, daemon>>

\* lines 328-334: the callback for one removed entry, outside the lock
cleanup_callback ==
    /\ disc.sweep.pc = "callback"
    /\ disc' = [disc EXCEPT
             !.events = Append(@, Event("removed", Head(disc.sweep.removed).key)),
             !.sweep = AfterSweep(@, Tail(disc.sweep.removed), disc.callback, disc.now)]
    /\ UNCHANGED <<streams, encoders, workers, procs, ffmpeg, kid, lk, sm_state, th, out, calls,
                   exits, liveStarts, stoppedAll, files, sm_lock, conns, daemon>>

\* lines 341 and 315: the sleep ends; the loop goes on while running
cleanup_wake ==
    /\ disc.sweep.pc = "sleep"
    /\ disc.now >= disc.sweep.wake
    /\ disc' = [disc EXCEPT !.sweep.pc = IF disc.running THEN "sweep" ELSE "none"]
    /\ UNCHANGED <<streams, encoders, workers, procs, ffmpeg, kid, lk, sm_state, th, out, calls,
                   exits, liveStarts, stoppedAll, files, sm_lock, conns, daemon>>

\* one second passes: a sleep does not outlast its time, a loop that can
\* run does, and a callback returns within the time a callback may take
tick ==
    /\ disc.running \/ disc.listen.pc # "none" \/ disc.sweep.pc # "none"
    /\ disc.now < disc.horizon
    /\ disc.sweep.pc \notin {"sweep"}
    /\ disc.sweep.pc = "sleep" => disc.now < disc.sweep.wake
    /\ disc.sweep.pc = "callback" => disc.now < disc.sweep.until
    /\ disc.listen.pc = "callback" => disc.now < disc.listen.until
    /\ disc' = [disc EXCEPT !.now = @ + 1]
    /\ UNCHANGED <<streams, encoders, workers, procs, ffmpeg, kid, lk, sm_state, th, out, calls,
                   exits, liveStarts, stoppedAll, files, sm_lock, conns, daemon>>

\* lines 345-372: stop(): the loops end at their next test of running (the
\* joins time out on a loop that is inside a callback), the table is cleared
discovery_stop ==
    /\ disc.running
    /\ disc' = [disc EXCEPT
             !.running = FALSE,
             !.services = <<>>,
             !.listen.pc = IF @ = "recv" THEN "none" ELSE @,
             !.sweep.pc = IF @ = "sweep" THEN "none" ELSE @]
    /\ UNCHANGED <<streams, encoders, workers, procs, ffmpeg, kid, lk, sm_state, th, out, calls,
                   exits, liveStarts, stoppedAll, files, sm_lock, conns, daemon>>

\* -------------------------------------------------------------------------
\* StreamingService._state_lock (service.py line 76): a threading.Lock, not
\* re-entrant.  Every public call and the encoder thread are written as the
\* sequence of the instructions that matter for the lock: "acquire" and
\* "release" for the entry and the exit of a with block (a return or a raise
\* inside the block releases too), "thread_start" for encoder_thread.start(),
\* "spawn" for encoder.start() up to Popen, "monitor" for the stderr loop of
\* encoder.start(), "stop" for encoder.stop() and "join" for
\* thread.join(timeout=10.0).
\* -------------------------------------------------------------------------
Block == <<"acquire", "release">>

\* lines 321-344
stop_stream_device_locks == Block \o <<"stop", "join">> \o Block

\* lines 122-134, 193-201, 204, 220-222
start_streaming_locks == Block \o Block \o <<"thread_start">> \o Block

\* health_check with is_streaming() called inside its with block
health_check_locks_nested == <<"acquire">> \o Block \o <<"release">>

\* lines 716 (is_streaming, lines 667-668) and 721-748
health_check_locks == Block \o Block

\* the calls and the instructions of each
LockOps ==
    {[name |-> "start", code |-> start_streaming_locks],
     \* the busy check raises (lines 124-134)
     [name |-> "start_busy", code |-> Block],
     \* the probe or the configuration raises: the handler of lines 237-239
     [name |-> "start_invalid", code |-> Block \o Block],
     \* the re-check fails: lines 211-213, then the handler
     [name |-> "start_dead", code |-> Block \o Block \o <<"thread_start">> \o Block \o Block],
     \* stop_streaming(device), lines 259-266
     [name |-> "stop", code |-> Block \o stop_stream_device_locks],
     \* stop_streaming(device) raises StreamNotRunningError
     [name |-> "stop_idle", code |-> Block],
     \* stop_streaming(None) with one row, lines 286-296
     [name |-> "stop_all", code |-> Block \o stop_stream_device_locks],
     \* restart_streaming, lines 381-456
     [name |-> "restart", code |-> Block \o stop_stream_device_locks \o start_streaming_locks],
     \* get_status(device), lines 515-526
     [name |-> "status", code |-> Block],
     [name |-> "health", code |-> health_check_locks],
     \* cleanup with one row, lines 757-764
     [name |-> "cleanup", code |-> Block \o Block \o stop_stream_device_locks]}

\* _run_encoder, lines 624-631, and with the handler of lines 636-639
run_encoder_locks == Block \o <<"spawn", "monitor">>

run_encoder_raises_locks == Block \o <<"spawn">> \o Block

\* the request threads, and one encoder thread: _run_encoder is followed for
\* one encoder thread at a time, the thread of a start made while that one
\* runs is not followed
Callers == Threads

Runner == NumThreads + 1

Runners == {Runner}

\* a thread is inside a call and has the instructions of code still to run
NotCalling == [busy |-> FALSE, code |-> <<>>]

\* the lock (0: free), where every thread is, the calls still to come, and
\* whether the child of each encoder thread is alive
Locks(n) ==
    [state_lock |-> 0,
     at |-> [t \in Callers \cup Runners |-> NotCalling],
     calls |-> n,
     child |-> [r \in Runners |-> "none"]]

NoLocks == Locks(0)

\* the instruction thread t is at, "return" past the last one
Instr(t) ==
    IF lk.at[t].code # <<>> THEN Head(lk.at[t].code)
    ELSE IF lk.at[t].busy THEN "return" ELSE "idle"

Advance(t) == [lk EXCEPT !.at[t].code = Tail(@)]

Others == <<streams, encoders, workers, procs, ffmpeg, disc, kid, sm_state, th, out, calls,
            exits, liveStarts, stoppedAll, files, sm_lock, conns, daemon>>

\* a request thread enters a call
lock_call(t, op) ==
    /\ lk.at[t] = NotCalling
    /\ lk.calls > 0
    /\ lk' = [lk EXCEPT !.at[t] = [busy |-> TRUE, code |-> op.code],
                        !.calls = @ - 1]
    /\ UNCHANGED Others

\* with self._state_lock: blocks until the lock is free
lock_acquire(t) ==
    /\ Instr(t) = "acquire"
    /\ lk.state_lock = 0
    /\ lk' = [Advance(t) EXCEPT !.state_lock = t]
    /\ UNCHANGED Others

lock_release(t) ==
    /\ Instr(t) = "release"
    /\ lk' = [Advance(t) EXCEPT !.state_lock = IF @ = t THEN 0 ELSE @]
    /\ UNCHANGED Others

\* encoder_thread.start(): _run_encoder begins in a thread of its own, and
\* encoder.start() returns or raises
lock_thread_start(t) ==
    /\ Instr(t) = "thread_start"
    /\ IF lk.at[Runner] = NotCalling
       THEN \E code \in {run_encoder_locks, run_encoder_raises_locks} :
                lk' = [Advance(t) EXCEPT !.at[Runner] = [busy |-> TRUE, code |-> code]]
       ELSE lk' = Advance(t)
    /\ UNCHANGED Others

\* Popen
lock_spawn(r) ==
    /\ r \in Runners
    /\ Instr(r) = "spawn"
    /\ lk' = [Advance(r) EXCEPT !.child[r] = "alive"]
    /\ UNCHANGED Others

\* the stderr loop ends when the child has exited
lock_monitor(r) ==
    /\ r \in Runners
    /\ Instr(r) = "monitor"
    /\ lk.child[r] # "alive"
    /\ lk' = Advance(r)
    /\ UNCHANGED Others

\* encoder.stop(): the children are interrupted or killed and reaped
lock_stop(t) ==
    /\ Instr(t) = "stop"
    /\ lk' = [Advance(t) EXCEPT
                 !.child = [r \in Runners |-> IF lk.child[r] = "alive" THEN "dead"
                                              ELSE lk.child[r]]]
    /\ UNCHANGED Others

\* thread.join(timeout=10.0) returns when the thread has ended or after 10 s
lock_join(t) ==
    /\ Instr(t) = "join"
    /\ lk' = Advance(t)
    /\ UNCHANGED Others

\* the call returns, the encoder thread ends
lock_return(t) ==
    /\ Instr(t) = "return"
    /\ lk' = [lk EXCEPT !.at[t] = NotCalling,
                        !.child = [r \in Runners |->
                                      IF r = t /\ lk.child[r] = "dead" THEN "none"
                                      ELSE lk.child[r]]]
    /\ UNCHANGED Others

\* -------------------------------------------------------------------------
\* FFmpegEncoder.stop (ffmpeg_encoder.py lines 191-212), step by step
\*
\* One encoder, its child and the callers of stop(): request threads inside
\* _stop_stream_device, and the encoder thread (the finally clause of
\* start()), which is the last of the callers.  A child that has exited is a
\* zombie until poll() or wait() reaps it; subprocess serialises the reaping.
\* -------------------------------------------------------------------------
Worker == 3
Stoppers == 1..Worker

\* process: self.process is set; child: none, alive, exited or reaped;
\* obeys: the child exits on SIGINT; interrupts, kills, reaps: the signals
\* sent and the times the child was reaped; stops: the calls of stop() made
Kid(child, obeys) ==
    [process |-> child # "none", child |-> child, obeys |-> obeys,
     interrupts |-> 0, kills |-> 0, reaps |-> 0,
     pc |-> [c \in Stoppers |-> "idle"], stops |-> [c \in Stoppers |-> 0]]

NoKid == Kid("none", TRUE)

\* Popen.poll(): a child that has exited is reaped
poll(k) ==
    IF k.child = "exited" THEN [k EXCEPT !.child = "reaped", !.reaps = @ + 1] ELSE k

\* ffmpeg_encoder.py lines 141-147: Popen in the encoder thread
kid_spawn ==
    /\ ~kid.process
    /\ kid.pc[Worker] = "idle"
    /\ kid' = [kid EXCEPT !.process = TRUE, !.child = "alive"]
    /\ UNCHANGED <<streams, encoders, workers, procs, ffmpeg, disc, lk, sm_state, th, out, calls,
                   exits, liveStarts, stoppedAll, files, sm_lock, conns, daemon>>

\* the child exits: by itself, or on the interrupt it has received
kid_exit ==
    /\ kid.child = "alive"
    /\ kid.interrupts > 0 => kid.obeys
    /\ kid' = [kid EXCEPT !.child = "exited"]
    /\ UNCHANGED <<streams, encoders, workers, procs, ffmpeg, disc, lk, sm_state, th, out, calls,
                   exits, liveStarts, stoppedAll, files, sm_lock, conns, daemon>>

\* stop() is called, line 193: if self.process and self.process.poll() is
\* None.  The encoder thread calls it when the stderr of its child has ended.
ffmpeg_stop_test(c) ==
    /\ kid.pc[c] \in {"idle", "returned"}
    /\ kid.stops[c] < MaxStops
    /\ c = Worker => kid.process /\ kid.child # "alive"
    /\ IF ~kid.process
       THEN kid' = [kid EXCEPT !.pc[c] = "returned", !.stops[c] = @ + 1]
       ELSE kid' = [poll(kid) EXCEPT !.pc[c] = IF kid.child = "alive" THEN "interrupt"
                                              ELSE "returned",
                                    !.stops[c] = @ + 1]
    /\ UNCHANGED <<streams, encoders, workers, procs, ffmpeg, disc, lk, sm_state, th, out, calls,
                   exits, liveStarts, stoppedAll, files, sm_lock, conns, daemon>>

\* line 198: send_signal(SIGINT) polls first and signals a child that runs
ffmpeg_stop_interrupt(c) ==
    /\ kid.pc[c] = "interrupt"
    /\ kid' = [poll(kid) EXCEPT !.pc[c] = "wait",
                                !.interrupts = IF kid.child = "alive" THEN @ + 1 ELSE @]
    /\ UNCHANGED <<streams, encoders, workers, procs, ffmpeg, disc, lk, sm_state, th, out, calls,
                   exits, liveStarts, stoppedAll, files, sm_lock, conns, daemon>>

\* lines 201-203: wait(timeout=5) returns once the child has exited
ffmpeg_stop_wait(c) ==
    /\ kid.pc[c] = "wait"
    /\ kid.child # "alive"
    /\ kid' = [poll(kid) EXCEPT !.pc[c] = "returned"]
    /\ UNCHANGED <<streams, encoders, workers, procs, ffmpeg, disc, lk, sm_state, th, out, calls,
                   exits, liveStarts, stoppedAll, files, sm_lock, conns, daemon>>

\* a stop() that returns at the time-out
ffmpeg_stop_timeout_returns(c) ==
    /\ kid.pc[c] = "wait"
    /\ kid.child = "alive"
    /\ kid' = [kid EXCEPT !.pc[c] = "returned"]
    /\ UNCHANGED <<streams, encoders, workers, procs, ffmpeg, disc, lk, sm_state, th, out, calls,
                   exits, liveStarts, stoppedAll, files, sm_lock, conns, daemon>>

\* lines 204-206: TimeoutExpired while the child still runs
ffmpeg_stop_timeout(c) ==
    /\ kid.pc[c] = "wait"
    /\ kid.child = "alive"
    /\ kid' = [kid EXCEPT !.pc[c] = "kill"]
    /\ UNCHANGED <<streams, encoders, workers, procs, ffmpeg, disc, lk, sm_state, th, out, calls,
                   exits, liveStarts, stoppedAll, files, sm_lock, conns, daemon>>

\* line 207: kill() polls first and kills a child that runs
ffmpeg_stop_kill(c) ==
    /\ kid.pc[c] = "kill"
    /\ kid' = [poll(kid) EXCEPT !.pc[c] = "reap",
                                !.kills = IF kid.child = "alive" THEN @ + 1 ELSE @,
                                !.child = IF kid.child = "alive" THEN "exited"
                                          ELSE poll(kid).child]
    /\ UNCHANGED <<streams, encoders, workers, procs, ffmpeg, disc, lk, sm_state, th, out, calls,
                   exits, liveStarts, stoppedAll, files, sm_lock, conns, daemon>>

\* line 208: wait() returns once the child has exited
ffmpeg_stop_reap(c) ==
    /\ kid.pc[c] = "reap"
    /\ kid.child # "alive"
    /\ kid' = [poll(kid) EXCEPT !.pc[c] = "returned"]
    /\ UNCHANGED <<streams, encoders, workers, procs, ffmpeg, disc, lk, sm_state, th, out, calls,
                   exits, liveStarts, stoppedAll, files, sm_lock, conns, daemon>>

\* ---- client connections ----
NoConn ==
    [pc |-> "unused", transport |-> "ipc", obj |-> NoRequest, body |-> <<>>,
     wire |-> <<>>,
     data |-> <<>>, req |-> NoRequest, resp |-> NoResponse, inbox |-> <<>>,
     sent |-> 0, open |-> FALSE]

\* ---- request threads ----
NoRet == [call |-> "none", status |-> "none"]

NoOut == [thread |-> 0, ret |-> NoRet]

\* the params of a request that gives none: {}
NoParams == <<>>

NoSettings == [device |-> NoDevice, name |-> None, resolution |-> <<>>, fps |-> 0,
               raw_input |-> FALSE, groups |-> None, streaming |-> FALSE]

IdleThread ==
    [pc |-> "idle", kind |-> "none", dev |-> NoDevice, cfg |-> NoCfg, enc |-> 0,
     pid |-> 0, exc |-> "none", todo |-> <<>>, count |-> 0, phase |-> "none",
     old |-> NoCfg, first |-> "none", ret |-> NoRet,
     method |-> "none", params |-> NoParams, settings |-> NoSettings]

Returned(r) == [IdleThread EXCEPT !.ret = r]

ErrorRet(call, d, e) == [call |-> call, status |-> "error", error |-> e, device |-> d]

\* IPCServerManager._route_request (ipc_server.py lines 270-298): what the
\* handler returns is the result of a success response; whatever exception it
\* raises becomes an error response with the internal-error code.  ret is the
\* outcome inside the handler; every handler of main.py re-raises the
\* exceptions of the service as StreamingError.
route_request(method, params, ret) ==
    IF ret.status = "error"
    THEN [call |-> "rpc", method |-> method, params |-> params, status |-> "error",
          code |-> INTERNAL_ERROR, raised |-> "StreamingError", cause |-> ret]
    ELSE [call |-> "rpc", method |-> method, params |-> params, status |-> "ok",
          code |-> 0, result |-> ret]

\* thread t moves to r; an outcome in r is delivered to its caller, through
\* the router when the thread serves an RPC request
Finish(t, r) ==
    /\ th' = [th EXCEPT ![t] = [r EXCEPT !.ret = NoRet]]
    /\ out' = IF r.ret = NoRet THEN NoOut
              ELSE IF th[t].method = "none" THEN [thread |-> t, ret |-> r.ret]
              ELSE [thread |-> t,
                    ret |-> route_request(th[t].method, th[t].params, r.ret)]

Init ==
    /\ streams = <<>>
    /\ encoders = <<>>
    /\ workers = <<>>
    /\ procs = <<>>
    /\ ffmpeg \in BOOLEAN
    /\ sm_state = default_state
    /\ th = [t \in Threads |-> IdleThread]
    /\ out = NoOut
    /\ calls = MaxCalls
    /\ exits = MaxExits
    /\ liveStarts = {}
    /\ stoppedAll = FALSE
    /\ files = StateDir(sm_state)
    /\ sm_lock = 0
    /\ conns = [c \in Conns |-> NoConn]
    /\ daemon = RunningDaemon(FALSE)
    /\ disc = NoDiscovery
    /\ kid = NoKid
    /\ lk = NoLocks

\* -------------------------------------------------------------------------
\* StreamingService.start_streaming
\* -------------------------------------------------------------------------
StartedRet(r, pid) ==
    [call |-> r.kind, status |-> "started", stream_name |-> r.cfg.name,
     device |-> r.dev, resolution |-> r.cfg.resolution, fps |-> r.cfg.fps,
     pid |-> pid]

\* What the caller of start_streaming does with its outcome: a request returns
\* it; restart_streaming (lines 446-501) retries once with the old settings and
\* wraps every outcome of that retry in the "rollback failed" error; the
\* settings.update handler (main.py lines 384-419) answers with the outcome.
AfterStart(r, ok, exc, pid) ==
    IF r.kind = "start"
    THEN Returned(IF ok THEN StartedRet(r, pid) ELSE ErrorRet("start", r.dev, exc))
    ELSE IF r.kind = "update"
    THEN Returned(IF ok THEN [call |-> "update", status |-> "updated_and_restarted",
                              settings |-> r.settings, stream_info |-> StartedRet(r, pid)]
                  ELSE ErrorRet("update", r.dev, exc))
    ELSE IF r.phase = "new"
         THEN IF ok THEN Returned(StartedRet(r, pid))
              ELSE [r EXCEPT !.pc = "s_check", !.cfg = r.old, !.phase = "rollback",
                             !.first = exc, !.enc = 0, !.pid = 0, !.exc = "none"]
         ELSE Returned([call |-> "restart", status |-> "error",
                        error |-> "RestartFailedRollbackFailed", device |-> r.dev,
                        original |-> r.first,
                        rollback |-> IF ok THEN "RestartFailedRolledBack" ELSE exc])

\* the capacity check with > in place of >=
StartCheck_off_by_one(t, r) ==
    /\ IF HasRow(streams, r.dev) \/ Len(streams) > MAX_STREAMS
       THEN Finish(t, AfterStart(r, FALSE, "StreamAlreadyRunning", 0))
       ELSE Finish(t, [r EXCEPT !.pc = "s_insert"])
    /\ stoppedAll' = FALSE
    /\ UNCHANGED <<streams, encoders, workers, procs, ffmpeg, disc, kid, lk, files, sm_lock, conns, daemon, sm_state, exits, liveStarts>>

\* lines 122-134: the busy check and the capacity check, under the lock
StartCheck(t, r) ==
    /\ IF HasRow(streams, r.dev) \/ Len(streams) >= MAX_STREAMS
       THEN Finish(t, AfterStart(r, FALSE, "StreamAlreadyRunning", 0))
       ELSE Finish(t, [r EXCEPT !.pc = "s_insert"])
    /\ stoppedAll' = FALSE
    /\ UNCHANGED <<streams, encoders, workers, procs, ffmpeg, disc, kid, lk, files, sm_lock, conns, daemon, sm_state, exits, liveStarts>>

\* a stream.start request reaches start_streaming
start_streaming(t, d, c) ==
    /\ th[t].pc = "idle"
    /\ calls > 0
    /\ calls' = calls - 1
    /\ StartCheck(t, [IdleThread EXCEPT !.kind = "start", !.dev = d, !.cfg = c])

\* the start of restart_streaming (line 449) or its rollback start (line 484)
start_streaming_check(t) ==
    /\ th[t].pc = "s_check"
    /\ StartCheck(t, th[t])
    /\ UNCHANGED calls

\* lines 136-204: probe, build the configuration, create encoder and thread,
\* insert the row and start the thread; a failure goes to the handler of
\* lines 235-241, which removes whatever row the device has
start_streaming_insert(t) ==
    LET r == th[t]
        e == Len(encoders) + 1
    IN  /\ r.pc = "s_insert"
        /\ IF r.dev \notin Devices
           THEN /\ streams' = cleanup_stream(streams, r.dev)
                /\ Finish(t, AfterStart(r, FALSE, "DeviceNotFound", 0))
                /\ UNCHANGED <<encoders, workers, procs>>
           ELSE IF ~ResolutionParses(r.cfg.resolution)
           THEN /\ streams' = cleanup_stream(streams, r.dev)
                /\ Finish(t, AfterStart(r, FALSE, "InvalidConfiguration", 0))
                /\ UNCHANGED <<encoders, workers, procs>>
           ELSE /\ encoders' = Append(encoders,
                        [dev |-> r.dev, cfg |-> StreamConfig(r.dev, r.cfg),
                         process |-> 0, errors |-> 0])
                /\ workers' = Append(workers, [pc |-> "ready", target |-> 0])
                /\ procs' = Append(procs, "none")
                /\ streams' = SetRow(streams, [dev |-> r.dev, enc |-> e, state |-> STARTING])
                /\ Finish(t, [r EXCEPT !.pc = "s_recheck", !.enc = e])
        /\ UNCHANGED <<ffmpeg, disc, kid, lk, files, sm_lock, conns, daemon, sm_state, calls, exits, liveStarts, stoppedAll>>

\* encoder.process is not None and encoder.process.poll() is None
ProcessAlive(e) == encoders[e].process # 0 /\ procs[encoders[e].process] = "alive"

\* lines 207-214: after the sleep, the liveness re-check
start_streaming_recheck(t) ==
    LET r == th[t]
    IN  /\ r.pc = "s_recheck"
        /\ IF ProcessAlive(r.enc)
           THEN /\ Finish(t, [r EXCEPT !.pc = "s_persist"])
                /\ UNCHANGED streams
           ELSE /\ streams' = SetRowState(streams, r.dev, ERROR)
                /\ Finish(t, [r EXCEPT !.pc = "s_fail", !.exc = "FFmpegFailed"])
        /\ UNCHANGED <<encoders, workers, procs, ffmpeg, disc, kid, lk, files, sm_lock, conns, daemon, sm_state, calls, exits, liveStarts, stoppedAll>>

\* lines 216-218: read the pid and persist
start_streaming_persist(t) ==
    LET r == th[t]
        pid == encoders[r.enc].process
    IN  /\ r.pc = "s_persist"
        /\ sm_state' = set_streaming_active(sm_state, encoders[r.enc].cfg, pid)
        /\ files' = save(files, sm_state')
        /\ Finish(t, [r EXCEPT !.pc = "s_running", !.pid = pid])
        /\ UNCHANGED <<streams, encoders, workers, procs, ffmpeg, disc, kid, lk, sm_lock, conns, daemon, calls, exits, liveStarts, stoppedAll>>

\* lines 220-233: mark the row Running and return "started"
start_streaming_running(t) ==
    LET r == th[t]
    IN  /\ r.pc = "s_running"
        /\ streams' = SetRowState(streams, r.dev, RUNNING)
        /\ Finish(t, AfterStart(r, TRUE, "none", r.pid))
        /\ liveStarts' = liveStarts \cup {r.dev}
        /\ UNCHANGED <<encoders, workers, procs, ffmpeg, disc, kid, lk, files, sm_lock, conns, daemon, sm_state, calls, exits, stoppedAll>>

\* lines 235-241: clean up on error and re-raise
start_streaming_fail(t) ==
    LET r == th[t]
    IN  /\ r.pc = "s_fail"
        /\ streams' = cleanup_stream(streams, r.dev)
        /\ Finish(t, AfterStart(r, FALSE, r.exc, 0))
        /\ UNCHANGED <<encoders, workers, procs, ffmpeg, disc, kid, lk, files, sm_lock, conns, daemon, sm_state, calls, exits, liveStarts, stoppedAll>>

\* -------------------------------------------------------------------------
\* StreamingService._stop_stream_device and its callers
\* -------------------------------------------------------------------------
\* What the caller of _stop_stream_device does when it returns: stop_streaming
\* (device) returns; the loops of stop_streaming() and cleanup() count and go
\* on to the next device; restart_streaming starts with the new settings; the
\* settings.update handler (main.py lines 384-391) starts the device of the
\* merged settings once the loop of its stop_streaming() has ended;
\* ExostreamDaemon.stop goes on to stop the listeners after its stop_streaming()
\* and returns after its cleanup().
AfterStop(r) ==
    IF r.kind = "stop"
    THEN Returned([call |-> "stop", status |-> "stopped", device |-> r.dev])
    ELSE IF r.kind \in {"stop_all", "cleanup", "update", "daemon_stop"}
    THEN IF Len(r.todo) > 1
         THEN [r EXCEPT !.pc = "p_fetch", !.todo = Tail(r.todo), !.dev = r.todo[2],
                        !.count = r.count + 1, !.enc = 0]
         ELSE IF r.kind = "daemon_stop"
         THEN [IdleThread EXCEPT !.kind = "daemon_stop", !.phase = r.phase,
                                 !.pc = IF r.phase = "streams" THEN "d_ipc" ELSE "d_done"]
         ELSE IF r.kind = "update"
         THEN [r EXCEPT !.pc = "s_check", !.enc = 0, !.todo = <<>>,
                        !.dev = r.settings.device,
                        !.cfg = [name |-> IF r.settings.name \in {None, ""}
                                          THEN "exostream" ELSE r.settings.name,
                                 resolution |-> r.settings.resolution,
                                 fps |-> r.settings.fps,
                                 raw_input |-> r.settings.raw_input,
                                 groups |-> r.settings.groups]]
         ELSE Returned([call |-> r.kind, status |-> "stopped", count |-> r.count + 1])
    ELSE [r EXCEPT !.pc = "s_check", !.phase = "new", !.enc = 0]

\* history: thread t's stop_streaming() returns while no other thread is inside
\* start_streaming
StartPcs == {"s_check", "s_insert", "s_recheck", "s_persist", "s_running", "s_fail"}

StoppedAllAfter(t, r) ==
    IF r.ret.call = "stop_all"
    THEN \A u \in Threads \ {t} : th[u].pc \notin StartPcs /\ th[u].kind # "restart"
    ELSE stoppedAll

\* lines 256-263: stop_streaming(device), the check and the Stopping mark
stop_streaming(t, d) ==
    /\ th[t].pc = "idle"
    /\ calls > 0
    /\ calls' = calls - 1
    /\ IF ~HasRow(streams, d)
       THEN /\ Finish(t, Returned(ErrorRet("stop", d, "StreamNotRunning")))
            /\ UNCHANGED <<streams, liveStarts, stoppedAll>>
       ELSE /\ streams' = SetRowState(streams, d, STOPPING)
            /\ Finish(t, [IdleThread EXCEPT !.pc = "p_fetch", !.kind = "stop", !.dev = d])
            /\ liveStarts' = liveStarts \ {d}
    /\ UNCHANGED <<encoders, workers, procs, ffmpeg, disc, kid, lk, files, sm_lock, conns, daemon, sm_state, exits, stoppedAll>>

\* stop_streaming() that reports zero streams stopped instead of raising
stop_streaming_all_lenient(t) ==
    /\ th[t].pc = "idle"
    /\ calls > 0
    /\ calls' = calls - 1
    /\ IF Len(streams) = 0
       THEN Finish(t, Returned([call |-> "stop_all", status |-> "stopped", count |-> 0]))
       ELSE Finish(t, [IdleThread EXCEPT !.pc = "p_fetch", !.kind = "stop_all",
                                         !.todo = Keys(streams), !.dev = Keys(streams)[1]])
    /\ UNCHANGED <<streams, encoders, workers, procs, ffmpeg, disc, kid, lk, files, sm_lock, conns, daemon, sm_state, exits, liveStarts, stoppedAll>>

\* lines 282-290: stop_streaming() without a device, the check and the key list
stop_streaming_all(t) ==
    /\ th[t].pc = "idle"
    /\ calls > 0
    /\ calls' = calls - 1
    /\ IF Len(streams) = 0
       THEN Finish(t, Returned(ErrorRet("stop_all", NoDevice, "StreamNotRunning")))
       ELSE Finish(t, [IdleThread EXCEPT !.pc = "p_fetch", !.kind = "stop_all",
                                         !.todo = Keys(streams), !.dev = Keys(streams)[1]])
    /\ UNCHANGED <<streams, encoders, workers, procs, ffmpeg, disc, kid, lk, files, sm_lock, conns, daemon, sm_state, exits, liveStarts, stoppedAll>>

\* lines 752-770: cleanup(), is_streaming() and the key list
cleanup(t) ==
    /\ th[t].pc = "idle"
    /\ calls > 0
    /\ calls' = calls - 1
    /\ IF Len(streams) = 0
       THEN Finish(t, Returned([call |-> "cleanup", status |-> "stopped", count |-> 0]))
       ELSE Finish(t, [IdleThread EXCEPT !.pc = "p_fetch", !.kind = "cleanup",
                                         !.todo = Keys(streams), !.dev = Keys(streams)[1]])
    /\ UNCHANGED <<streams, encoders, workers, procs, ffmpeg, disc, kid, lk, files, sm_lock, conns, daemon, sm_state, exits, liveStarts, stoppedAll>>

\* lines 321-327: fetch the row's encoder and thread, or return if no row
stop_stream_device_fetch(t) ==
    LET r == th[t]
    IN  /\ r.pc = "p_fetch"
        /\ IF ~HasRow(streams, r.dev)
           THEN /\ Finish(t, AfterStop(r))
                /\ stoppedAll' = StoppedAllAfter(t, AfterStop(r))
                /\ UNCHANGED liveStarts
           ELSE /\ Finish(t, [r EXCEPT !.pc = "p_stopenc", !.enc = Row(streams, r.dev).enc])
                /\ liveStarts' = liveStarts \ {r.dev}
                /\ UNCHANGED stoppedAll
        /\ UNCHANGED <<streams, encoders, workers, procs, ffmpeg, disc, kid, lk, files, sm_lock, conns, daemon, sm_state, calls, exits>>

\* FFmpegEncoder.stop (ffmpeg_encoder.py lines 191-212): a live child is
\* interrupted, killed if it does not exit, and reaped; otherwise nothing
encoder_stop(ps, e) ==
    IF encoders[e].process # 0 /\ ps[encoders[e].process] = "alive"
    THEN [ps EXCEPT ![encoders[e].process] = "exited"]
    ELSE ps

\* lines 329-331
stop_stream_device_stop(t) ==
    LET r == th[t]
    IN  /\ r.pc = "p_stopenc"
        /\ procs' = encoder_stop(procs, r.enc)
        /\ Finish(t, [r EXCEPT !.pc = "p_join"])
        /\ UNCHANGED <<streams, encoders, workers, ffmpeg, disc, kid, lk, files, sm_lock, conns, daemon, sm_state, calls, exits, liveStarts, stoppedAll>>

\* the worker is blocked reading the stderr of a live child
WorkerBlocked(w) == workers[w].pc = "monitor" /\ procs[w] = "alive"

\* lines 333-337: thread.join(timeout=10.0) returns when the worker has ended,
\* or at the time-out, which elapses while the worker is blocked
stop_stream_device_join(t) ==
    LET r == th[t]
    IN  /\ r.pc = "p_join"
        /\ workers[r.enc].pc = "done" \/ WorkerBlocked(r.enc)
        /\ Finish(t, [r EXCEPT !.pc = "p_inactive"])
        /\ UNCHANGED <<streams, encoders, workers, procs, ffmpeg, disc, kid, lk, files, sm_lock, conns, daemon, sm_state, calls, exits,
                       liveStarts, stoppedAll>>

\* lines 339-340
stop_stream_device_inactive(t) ==
    LET r == th[t]
    IN  /\ r.pc = "p_inactive"
        /\ sm_state' = set_streaming_inactive(sm_state, r.dev)
        /\ files' = save(files, sm_state')
        /\ Finish(t, [r EXCEPT !.pc = "p_cleanup"])
        /\ UNCHANGED <<streams, encoders, workers, procs, ffmpeg, disc, kid, lk, sm_lock, conns, daemon, calls, exits, liveStarts, stoppedAll>>

\* lines 342-344
stop_stream_device_cleanup(t) ==
    LET r == th[t]
    IN  /\ r.pc = "p_cleanup"
        /\ streams' = cleanup_stream(streams, r.dev)
        /\ Finish(t, AfterStop(r))
        /\ stoppedAll' = StoppedAllAfter(t, AfterStop(r))
        /\ UNCHANGED <<encoders, workers, procs, ffmpeg, disc, kid, lk, files, sm_lock, conns, daemon, sm_state, calls, exits, liveStarts>>

\* -------------------------------------------------------------------------
\* StreamingService.restart_streaming
\* -------------------------------------------------------------------------
\* lines 392-397: the settings of the live stream
CurrentCfg(e) ==
    LET c == encoders[e].cfg
    IN  [name |-> c.name, resolution |-> resolution(c.width, c.height), fps |-> c.fps,
         raw_input |-> c.raw_input, groups |-> c.groups]

\* lines 399-404: a setting that is not given keeps its current value
Merge(old, upd) ==
    [f \in DOMAIN old |-> IF f \in DOMAIN upd THEN upd[f] ELSE old[f]]

\* lines 408-425: the pre-validation
PreValid(c) ==
    /\ ContainsX(c.resolution)
    /\ ResolutionParses(c.resolution)
    /\ from_resolution_string(c.resolution).width >= 1
    /\ from_resolution_string(c.resolution).height >= 1
    /\ c.fps >= 1
    /\ c.fps <= 120

\* lines 380-425
restart_streaming(t, d, upd) ==
    /\ th[t].pc = "idle"
    /\ calls > 0
    /\ calls' = calls - 1
    /\ IF ~HasRow(streams, d)
       THEN Finish(t, Returned(ErrorRet("restart", d, "StreamNotRunning")))
       ELSE LET old == CurrentCfg(Row(streams, d).enc)
                new == Merge(old, upd)
            IN  IF ~PreValid(new)
                THEN Finish(t, Returned(ErrorRet("restart", d, "InvalidSettings")))
                ELSE Finish(t, [IdleThread EXCEPT !.pc = "p_fetch", !.kind = "restart",
                                                  !.dev = d, !.cfg = new, !.old = old])
    /\ UNCHANGED <<streams, encoders, workers, procs, ffmpeg, disc, kid, lk, files, sm_lock, conns, daemon, sm_state, exits, liveStarts, stoppedAll>>

\* -------------------------------------------------------------------------
\* The encoder thread: StreamingService._run_encoder and FFmpegEncoder.start
\* -------------------------------------------------------------------------
\* service.py lines 624-628: look the device up and take the row's encoder
run_encoder_fetch(w) ==
    /\ workers[w].pc = "ready"
    /\ IF ~HasRow(streams, encoders[w].dev)
       THEN workers' = [workers EXCEPT ![w].pc = "done"]
       ELSE workers' = [workers EXCEPT ![w].pc = "spawn",
                                       ![w].target = Row(streams, encoders[w].dev).enc]
    /\ out' = NoOut
    /\ UNCHANGED <<streams, encoders, procs, ffmpeg, disc, kid, lk, files, sm_lock, conns, daemon, sm_state, th, calls, exits, liveStarts, stoppedAll>>

\* ffmpeg_encoder.py lines 141-147: Popen succeeds and self.process is set
encoder_start_spawn(w) ==
    /\ workers[w].pc = "spawn"
    /\ ffmpeg
    /\ procs' = [procs EXCEPT ![w] = "alive"]
    /\ encoders' = [encoders EXCEPT ![workers[w].target].process = w]
    /\ workers' = [workers EXCEPT ![w].pc = "monitor"]
    /\ out' = NoOut
    /\ UNCHANGED <<streams, ffmpeg, disc, kid, lk, files, sm_lock, conns, daemon, sm_state, th, calls, exits, liveStarts, stoppedAll>>

\* ffmpeg_encoder.py lines 178-183: Popen raises FileNotFoundError; on_error
\* records the message
encoder_start_raises(w) ==
    /\ workers[w].pc = "spawn"
    /\ ~ffmpeg
    /\ encoders' = [encoders EXCEPT ![workers[w].target].errors = @ + 1]
    /\ workers' = [workers EXCEPT ![w].pc = "raised"]
    /\ out' = NoOut
    /\ UNCHANGED <<streams, procs, ffmpeg, disc, kid, lk, files, sm_lock, conns, daemon, sm_state, th, calls, exits, liveStarts, stoppedAll>>

\* service.py lines 634-639: the exception handler of _run_encoder
run_encoder_except(w) ==
    LET d == encoders[w].dev
    IN  /\ workers[w].pc = "raised"
        /\ IF HasRow(streams, d)
           THEN /\ encoders' = [encoders EXCEPT ![Row(streams, d).enc].errors = @ + 1]
                /\ streams' = SetRowState(streams, d, ERROR)
           ELSE UNCHANGED <<encoders, streams>>
        /\ workers' = [workers EXCEPT ![w].pc = "done"]
        /\ out' = NoOut
        /\ UNCHANGED <<procs, ffmpeg, disc, kid, lk, files, sm_lock, conns, daemon, sm_state, th, calls, exits, liveStarts, stoppedAll>>

\* ffmpeg_encoder.py lines 155-176: the stderr loop ends when the child has
\* exited; the finally clause calls self.stop(); _run_encoder returns
encoder_start_finally(w) ==
    /\ workers[w].pc = "monitor"
    /\ procs[w] = "exited"
    /\ procs' = encoder_stop(procs, workers[w].target)
    /\ workers' = [workers EXCEPT ![w].pc = "done"]
    /\ out' = NoOut
    /\ UNCHANGED <<streams, encoders, ffmpeg, disc, kid, lk, files, sm_lock, conns, daemon, sm_state, th, calls, exits, liveStarts, stoppedAll>>

\* the ffmpeg child exits by itself (bad parameters, device error, crash)
child_exit(p) ==
    /\ procs[p] = "alive"
    /\ exits > 0
    /\ exits' = exits - 1
    /\ procs' = [procs EXCEPT ![p] = "exited"]
    /\ out' = NoOut
    /\ UNCHANGED <<streams, encoders, workers, ffmpeg, disc, kid, lk, files, sm_lock, conns, daemon, sm_state, th, calls, liveStarts, stoppedAll>>

\* -------------------------------------------------------------------------
\* StreamingService.health_check (service.py lines 707-750)
\* -------------------------------------------------------------------------
Issue(d, what) == [device |-> d, what |-> what]

\* lines 732-739 without the test of poll()
Died_never(r) == FALSE

\* lines 732-735: the row is Running and the child of its encoder has exited
Died(r) ==
    /\ r.state = RUNNING
    /\ encoders[r.enc].process # 0
    /\ procs[encoders[r.enc].process] # "alive"

\* lines 736-739: the row is Running and its encoder has no child
NoProcess(r) == r.state = RUNNING /\ encoders[r.enc].process = 0

\* lines 722-745: the issues of one row, in the order they are appended
RowIssues(r) ==
    (IF r.state = ERROR THEN <<Issue(r.dev, "Stream in error state")>> ELSE <<>>)
    \o (IF Died(r) THEN <<Issue(r.dev, "FFmpeg process died unexpectedly")>> ELSE <<>>)
    \o (IF NoProcess(r) THEN <<Issue(r.dev, "No encoder process while streaming")>>
        ELSE <<>>)
    \o (IF encoders[r.enc].errors > 0 THEN <<Issue(r.dev, "recent error")>> ELSE <<>>)

RECURSIVE HealthIssues(_)
HealthIssues(tbl) ==
    IF tbl = <<>> THEN <<>> ELSE RowIssues(Head(tbl)) \o HealthIssues(Tail(tbl))

\* recent errors add an issue and leave healthy as it is
Unhealthy(r) == r.state = ERROR \/ Died(r) \/ NoProcess(r)

\* lines 714-719: the health record with is_streaming(), read in a lock block
\* of its own
health_check(t) ==
    /\ th[t].pc = "idle"
    /\ calls > 0
    /\ calls' = calls - 1
    /\ Finish(t, [IdleThread EXCEPT !.pc = "h_streams", !.kind = "health",
                                    !.count = IF Len(streams) > 0 THEN 1 ELSE 0])
    /\ UNCHANGED <<streams, encoders, workers, procs, ffmpeg, disc, kid, lk, files, sm_lock, conns,
                   daemon, sm_state, exits, liveStarts, stoppedAll>>

\* lines 721-750: the rows are examined under the lock
health_check_streams(t) ==
    /\ th[t].pc = "h_streams"
    /\ Finish(t, Returned([call |-> "health", status |-> "ok",
                           healthy |-> \A i \in 1..Len(streams) : ~Unhealthy(streams[i]),
                           streaming |-> th[t].count = 1,
                           stream_count |-> Len(streams),
                           issues |-> HealthIssues(streams)]))
    /\ UNCHANGED <<streams, encoders, workers, procs, ffmpeg, disc, kid, lk, files, sm_lock, conns,
                   daemon, sm_state, calls, exits, liveStarts, stoppedAll>>

\* -------------------------------------------------------------------------
\* Status
\* -------------------------------------------------------------------------
\* service.py lines 503-579
get_status(device) ==
    IF device # NoDevice
    THEN IF ~HasRow(streams, device)
         THEN [view |-> "single", streaming |-> FALSE, device |-> device]
         ELSE [view |-> "single", streaming |-> TRUE, device |-> device,
               state |-> Row(streams, device).state]
    ELSE [view |-> "all",
          streaming |-> Cardinality(DOMAIN get_all_streams(sm_state)) > 0,
          stream_count |-> Cardinality(DOMAIN get_all_streams(sm_state)),
          max_streams |-> MAX_STREAMS,
          streams |-> DOMAIN get_all_streams(sm_state)]

\* main.py lines 219-236: the stream.status handler does not read params
handle_stream_status(params) == get_status(NoDevice)

\* a stream.status request naming device d
stream_status(t, d) ==
    /\ th[t].pc = "idle"
    /\ calls > 0
    /\ calls' = calls - 1
    /\ Finish(t, Returned([call |-> "status", status |-> "ok", device |-> d,
                           after_start |-> d \in liveStarts,
                           result |-> handle_stream_status([device |-> d])]))
    /\ UNCHANGED <<streams, encoders, workers, procs, ffmpeg, disc, kid, lk, files, sm_lock, conns, daemon, sm_state, exits, liveStarts, stoppedAll>>

\* service.py lines 580-612: in_use is read from the state store
list_devices ==
    [d \in Devices |-> [path |-> d, in_use |-> d \in DOMAIN get_all_streams(sm_state)]]

\* a devices.list request
devices_list(t) ==
    /\ th[t].pc = "idle"
    /\ calls > 0
    /\ calls' = calls - 1
    /\ Finish(t, Returned([call |-> "devices", status |-> "ok", result |-> list_devices]))
    /\ UNCHANGED <<streams, encoders, workers, procs, ffmpeg, disc, kid, lk, files, sm_lock, conns, daemon, sm_state, exits, liveStarts, stoppedAll>>

\* -------------------------------------------------------------------------
\* The state store's readers and the settings manager
\* -------------------------------------------------------------------------
\* state_manager.py lines 195-211
get_streaming_info(st, device) ==
    IF device # NoDevice
    THEN IF device \in DOMAIN st.streams THEN st.streams[device] ELSE <<>>
    ELSE [streams |-> st.streams]

get_last_config(st) == st.last_config

\* settings_manager.py lines 45-78
get_current_settings(st) ==
    LET streaming_info == get_streaming_info(st, NoDevice)
        last_config == get_last_config(st)
    IN  IF Get(streaming_info, "active", FALSE)
        THEN [device |-> Get(streaming_info, "device", Video0),
              name |-> Get(streaming_info, "stream_name", None),
              resolution |-> Get(streaming_info, "resolution", T1920x1080),
              fps |-> Get(streaming_info, "fps", 30),
              raw_input |-> Get(streaming_info, "raw_input", FALSE),
              groups |-> Get(streaming_info, "groups", None),
              streaming |-> TRUE]
        ELSE [device |-> Get(last_config, "device", Video0),
              name |-> None,
              resolution |-> Get(last_config, "resolution", T1920x1080),
              fps |-> Get(last_config, "fps", 30),
              raw_input |-> Get(last_config, "raw_input", FALSE),
              groups |-> None,
              streaming |-> FALSE]

\* settings_manager.py lines 80-120; `if params.device:` and
\* `if params.resolution:` skip a field that is absent or empty
validate_settings_update(params) ==
    IF "device" \in DOMAIN params /\ params.device # "" /\ params.device \notin Devices
    THEN "DeviceNotFound"
    ELSE IF "resolution" \in DOMAIN params /\ params.resolution # <<>>
            /\ ~ContainsX(params.resolution)
    THEN "InvalidResolutionFormat"
    ELSE IF "resolution" \in DOMAIN params /\ params.resolution # <<>>
            /\ ~ResolutionParses(params.resolution)
    THEN "InvalidResolutionFormat"
    ELSE IF "resolution" \in DOMAIN params /\ params.resolution # <<>>
            /\ (from_resolution_string(params.resolution).width < 1
                  \/ from_resolution_string(params.resolution).height < 1)
    THEN "ResolutionNotPositive"
    ELSE IF "resolution" \in DOMAIN params /\ params.resolution # <<>>
            /\ (from_resolution_string(params.resolution).width > 4096
                  \/ from_resolution_string(params.resolution).height > 4096)
    THEN "ResolutionTooLarge"
    ELSE IF "fps" \in DOMAIN params /\ (params.fps < 1 \/ params.fps > 120)
    THEN "FpsOutOfRange"
    ELSE IF "name" \in DOMAIN params /\ params.name = ""
    THEN "EmptyName"
    ELSE "ok"

\* settings_manager.py lines 154-181
merge_settings(current, updates) ==
    [f \in DOMAIN current |-> IF f \in DOMAIN updates THEN updates[f] ELSE current[f]]

\* service.py lines 654-668
is_streaming == Len(streams) > 0

\* -------------------------------------------------------------------------
\* The RPC handlers of the daemon (main.py)
\* -------------------------------------------------------------------------
\* the server reads a request and routes it to the handler of its method
rpc_receive(t, m, params) ==
    /\ th[t].pc = "idle"
    /\ daemon.ipc \/ daemon.tcp
    /\ calls > 0
    /\ calls' = calls - 1
    /\ Finish(t, [IdleThread EXCEPT !.pc = "routed", !.method = m, !.params = params])
    /\ UNCHANGED <<streams, encoders, workers, procs, ffmpeg, disc, kid, lk, files, sm_lock, conns, daemon, sm_state, exits, liveStarts, stoppedAll>>

\* main.py lines 159-197
handle_stream_start(t) ==
    LET r == th[t]
        p == r.params
    IN  /\ r.pc = "routed"
        /\ r.method = "stream.start"
        /\ StartCheck(t, [r EXCEPT !.kind = "start", !.dev = p.device,
                                   !.cfg = [name |-> p.name, resolution |-> p.resolution,
                                            fps |-> p.fps, raw_input |-> p.raw_input,
                                            groups |-> p.groups]])
        /\ UNCHANGED calls

\* main.py lines 199-217: params is not read; stop_streaming() is called
\* without a device (service.py lines 282-290)
handle_stream_stop(t) ==
    LET r == th[t]
    IN  /\ r.pc = "routed"
        /\ r.method = "stream.stop"
        /\ IF Len(streams) = 0
           THEN Finish(t, Returned(ErrorRet("stop_all", NoDevice, "StreamNotRunning")))
           ELSE Finish(t, [r EXCEPT !.pc = "p_fetch", !.kind = "stop_all",
                                    !.todo = Keys(streams), !.dev = Keys(streams)[1]])
        /\ UNCHANGED <<streams, encoders, workers, procs, ffmpeg, disc, kid, lk, files, sm_lock, conns, daemon, sm_state, calls, exits,
                       liveStarts, stoppedAll>>

\* main.py lines 324-341
handle_settings_get(t) ==
    LET r == th[t]
    IN  /\ r.pc = "routed"
        /\ r.method = "settings.get"
        /\ Finish(t, Returned([call |-> "settings_get", status |-> "ok",
                               settings |-> get_current_settings(sm_state)]))
        /\ UNCHANGED <<streams, encoders, workers, procs, ffmpeg, disc, kid, lk, files, sm_lock, conns, daemon, sm_state, calls, exits,
                       liveStarts, stoppedAll>>

\* main.py lines 358-371: validate, read the current settings and merge
handle_settings_update(t) ==
    LET r == th[t]
        p == r.params
    IN  /\ r.pc = "routed"
        /\ r.method = "settings.update"
        /\ IF validate_settings_update(p) # "ok"
           THEN Finish(t, Returned(ErrorRet("update", Get(p, "device", NoDevice),
                                            "InvalidSettings")))
           ELSE Finish(t, [r EXCEPT !.pc = "u_streaming", !.kind = "update",
                                    !.settings = merge_settings(get_current_settings(sm_state), p)])
        /\ UNCHANGED <<streams, encoders, workers, procs, ffmpeg, disc, kid, lk, files, sm_lock, conns, daemon, sm_state, calls, exits,
                       liveStarts, stoppedAll>>

\* main.py lines 373-377 and 398-413: is_streaming() and the two answers that
\* do not restart; neither writes to the state store
settings_update_is_streaming(t) ==
    LET r == th[t]
        was_streaming == is_streaming
    IN  /\ r.pc = "u_streaming"
        /\ IF was_streaming /\ Get(r.params, "restart_if_streaming", TRUE)
           THEN Finish(t, [r EXCEPT !.pc = "u_stop"])
           ELSE IF was_streaming
           THEN Finish(t, Returned([call |-> "update", status |-> "saved_for_next_start",
                                    settings |-> r.settings]))
           ELSE Finish(t, Returned([call |-> "update", status |-> "updated",
                                    settings |-> r.settings]))
        /\ UNCHANGED <<streams, encoders, workers, procs, ffmpeg, disc, kid, lk, files, sm_lock, conns, daemon, sm_state, calls, exits,
                       liveStarts, stoppedAll>>

\* main.py line 381: stop_streaming() without a device
settings_update_stop(t) ==
    LET r == th[t]
    IN  /\ r.pc = "u_stop"
        /\ IF Len(streams) = 0
           THEN Finish(t, Returned(ErrorRet("update", r.settings.device, "StreamNotRunning")))
           ELSE Finish(t, [r EXCEPT !.pc = "p_fetch",
                                    !.todo = Keys(streams), !.dev = Keys(streams)[1]])
        /\ UNCHANGED <<streams, encoders, workers, procs, ffmpeg, disc, kid, lk, files, sm_lock, conns, daemon, sm_state, calls, exits,
                       liveStarts, stoppedAll>>

\* -------------------------------------------------------------------------
\* The state store at work (state_manager.py): construction, the writers under
\* self._lock, the steps of _save, and a crash of the process
\*
\* A file is written through a buffer: FlushUnits units reach the file at a
\* time, the rest when the file is closed.
\* -------------------------------------------------------------------------
StoreOk(st) == [ok |-> TRUE, st |-> st, saves |-> TRUE]

\* the writer returns without a call of _save
StoreUnchanged(st) == [ok |-> TRUE, st |-> st, saves |-> FALSE]

\* the writer raises KeyError or TypeError at a subscript of _state
StoreRaises(st) == [ok |-> FALSE, st |-> st, saves |-> FALSE]

\* v[key] is there and is a dict
HasSection(v, key) == v.t = "obj" /\ HasKey(v, key) /\ GetItem(v, key).t = "obj"

DelItem(items, key) == SelectSeq(items, LAMBDA x : x.key # key)

\* the writers on a _state that is not a state document
raw_write(v, op) ==
    CASE op.name = "clear_state" -> StoreOk(default_state)
      [] op.name = "set_daemon_started" ->
            IF HasSection(v, "daemon")
            THEN StoreOk(RawState(JObj(SetItem(v.o, "daemon",
                     JObj(SetItem(SetItem(GetItem(v, "daemon").o,
                                          "started_at", JStr(op.now)),
                                  "pid", JNum(op.pid)))))))
            ELSE StoreRaises(RawState(v))
      [] op.name = "set_streaming_active" ->
            IF HasSection(v, "streams")
            THEN LET e == set_streaming_active(default_state, op.cfg, op.pid)
                     d == state_doc(e)
                 IN  StoreOk(RawState(JObj(SetItem(SetItem(v.o, "streams",
                         JObj(SetItem(GetItem(v, "streams").o, op.cfg.device,
                                      stream_doc(e.streams[op.cfg.device])))),
                         "last_config", GetItem(d, "last_config")))))
            ELSE StoreRaises(RawState(v))
      [] op.name = "set_streaming_inactive" ->
            IF ~HasSection(v, "streams") THEN StoreRaises(RawState(v))
            ELSE IF op.device = NoDevice
            THEN StoreOk(RawState(JObj(SetItem(v.o, "streams", JObj(<<>>)))))
            ELSE IF HasKey(GetItem(v, "streams"), op.device)
            THEN StoreOk(RawState(JObj(SetItem(v.o, "streams",
                     JObj(DelItem(GetItem(v, "streams").o, op.device))))))
            ELSE StoreUnchanged(RawState(v))

\* the writers of the store: the new _state and whether _save is called
store_write(st, op) ==
    IF IsRaw(st) THEN raw_write(st.raw, op)
    ELSE CASE op.name = "clear_state" -> StoreOk(default_state)
           [] op.name = "set_daemon_started" ->
                 StoreOk(set_daemon_started(st, op.pid, op.now))
           [] op.name = "set_streaming_active" ->
                 StoreOk(set_streaming_active(st, op.cfg, op.pid))
           [] op.name = "set_streaming_inactive" ->
                 IF op.device # NoDevice /\ op.device \notin DOMAIN st.streams
                 THEN StoreUnchanged(st)
                 ELSE StoreOk(set_streaming_inactive(st, op.device))

\* the constructor is still running
Booting == \E t \in Threads : th[t].kind = "load"

\* the thread of the constructor
BootThread == [IdleThread EXCEPT !.kind = "load", !.pc = "load", !.phase = "__init__"]

\* __init__ and _load, lines 36-72: a file that exists is read; without a
\* file the default state is set and saved
StateManager_load(t) ==
    LET r == th[t]
    IN  /\ r.pc = "load"
        /\ IF files.state.exists
           THEN /\ sm_state' = load_file(files.state)
                /\ Finish(t, Returned([call |-> "__init__", status |-> "ok"]))
           ELSE /\ sm_state' = default_state
                /\ Finish(t, [r EXCEPT !.pc = "save_open"])
        /\ UNCHANGED <<streams, encoders, workers, procs, ffmpeg, disc, kid, lk, files, sm_lock, conns,
                       daemon, calls, exits, liveStarts, stoppedAll>>

\* a writer takes the lock and changes _state; it goes on to _save, or
\* returns, or raises
store_writer(t, op) ==
    LET w == store_write(sm_state, op)
    IN  /\ th[t].pc = "idle"
        /\ ~Booting
        /\ sm_lock = 0
        /\ calls > 0
        /\ calls' = calls - 1
        /\ sm_state' = w.st
        /\ IF w.saves
           THEN /\ sm_lock' = t
                /\ Finish(t, [IdleThread EXCEPT !.kind = "store", !.pc = "save_open",
                                                !.phase = op.name])
           ELSE /\ sm_lock' = 0
                /\ Finish(t, Returned([call |-> op.name,
                                       status |-> IF w.ok THEN "ok" ELSE "error"]))
        /\ UNCHANGED <<streams, encoders, workers, procs, ffmpeg, disc, kid, lk, files, conns, daemon,
                       exits, liveStarts, stoppedAll>>

\* _save, line 79: open(temp_file, 'w') creates or truncates state.tmp
save_open(t) ==
    LET r == th[t]
    IN  /\ r.pc = "save_open"
        /\ files' = [files EXCEPT !.tmp = File(<<>>)]
        /\ Finish(t, [r EXCEPT !.pc = "save_write"])
        /\ UNCHANGED <<streams, encoders, workers, procs, ffmpeg, disc, kid, lk, sm_lock, conns, daemon,
                       sm_state, calls, exits, liveStarts, stoppedAll>>

\* a write that puts the first n units of text straight into state.json
flush_in_place(fs, text, n) == [fs EXCEPT !.state = File(SubSeq(text, 1, n))]

\* the first n units of text are in state.tmp
flush(fs, text, n) == [fs EXCEPT !.tmp = File(SubSeq(text, 1, n))]

\* _save, line 80: json.dump fills the buffer, which is flushed when full
save_write(t) ==
    LET r == th[t]
        text == state_text(sm_state)
        n == Len(files.tmp.text) + FlushUnits
    IN  /\ r.pc = "save_write"
        /\ IF n < Len(text)
           THEN /\ files' = flush(files, text, n)
                /\ Finish(t, r)
           ELSE /\ files' = files
                /\ Finish(t, [r EXCEPT !.pc = "save_close"])
        /\ UNCHANGED <<streams, encoders, workers, procs, ffmpeg, disc, kid, lk, sm_lock, conns, daemon,
                       sm_state, calls, exits, liveStarts, stoppedAll>>

\* _save, lines 79-80: the with block closes the file, which flushes the rest
save_close(t) ==
    LET r == th[t]
        text == state_text(sm_state)
    IN  /\ r.pc = "save_close"
        /\ files' = flush(files, text, Len(text))
        /\ Finish(t, [r EXCEPT !.pc = "save_replace"])
        /\ UNCHANGED <<streams, encoders, workers, procs, ffmpeg, disc, kid, lk, sm_lock, conns, daemon,
                       sm_state, calls, exits, liveStarts, stoppedAll>>

\* _save, line 81: temp_file.replace(state_file); then the writer releases the
\* lock and returns
save_replace(t) ==
    LET r == th[t]
    IN  /\ r.pc = "save_replace"
        /\ files' = [files EXCEPT !.state = files.tmp, !.tmp = NoFile]
        /\ sm_lock' = 0
        /\ Finish(t, Returned([call |-> r.phase, status |-> "ok"]))
        /\ UNCHANGED <<streams, encoders, workers, procs, ffmpeg, disc, kid, lk, conns, daemon,
                       sm_state, calls, exits, liveStarts, stoppedAll>>

\* _save, lines 83-84: an OSError of open, write or replace is logged; the
\* writer releases the lock and returns
save_error(t) ==
    LET r == th[t]
    IN  /\ r.pc \in {"save_open", "save_write", "save_close", "save_replace"}
        /\ sm_lock' = 0
        /\ Finish(t, Returned([call |-> r.phase, status |-> "ok"]))
        /\ UNCHANGED <<streams, encoders, workers, procs, ffmpeg, disc, kid, lk, files, conns, daemon,
                       sm_state, calls, exits, liveStarts, stoppedAll>>

\* the process is killed and started again: memory is lost, the files stay,
\* and the constructor runs
crash_restart ==
    /\ th' = [t \in Threads |-> IF t = 1 THEN BootThread ELSE IdleThread]
    /\ out' = NoOut
    /\ sm_lock' = 0
    /\ sm_state' = default_state
    /\ UNCHANGED <<streams, encoders, workers, procs, ffmpeg, disc, kid, lk, files, conns, daemon,
                   calls, exits, liveStarts, stoppedAll>>

SaveStep(t) ==
    \/ save_open(t)
    \/ save_write(t)
    \/ save_close(t)
    \/ save_replace(t)
    \/ save_error(t)

\* -------------------------------------------------------------------------
\* The life cycle of the daemon (main.py): start and stop
\* -------------------------------------------------------------------------
\* os.getpid() of the daemon
DaemonPid == 4242

\* the time of the launch, as datetime.now().isoformat() gives it
LaunchTime == "2025-01-01T00:00:00"

\* the thread that runs stop(): the signal handler or a shutdown thread
Stopper == NumThreads

\* start(), lines 446-464: the daemon record is written and the listeners start
daemon_start ==
    /\ daemon.main = "init"
    /\ sm_state' = set_daemon_started(sm_state, DaemonPid, LaunchTime)
    /\ files' = save(files, sm_state')
    /\ daemon' = [daemon EXCEPT !.ipc = TRUE, !.tcp = daemon.enabled, !.main = "starting"]
    /\ UNCHANGED <<streams, encoders, workers, procs, ffmpeg, disc, kid, lk, sm_lock, conns, th, out,
                   calls, exits, liveStarts, stoppedAll>>

\* start(), lines 466-471: _running = True and the main loop
daemon_start_running ==
    /\ daemon.main = "starting"
    /\ daemon' = [daemon EXCEPT !.running = TRUE, !.main = "loop"]
    /\ UNCHANGED <<streams, encoders, workers, procs, ffmpeg, disc, kid, lk, files, sm_lock, conns,
                   sm_state, th, out, calls, exits, liveStarts, stoppedAll>>

\* stop(), lines 478-489: _running = False and is_streaming()
daemon_stop(t) ==
    /\ th[t].pc = "idle"
    /\ daemon.running
    /\ daemon' = [daemon EXCEPT !.running = FALSE]
    /\ Finish(t, [IdleThread EXCEPT !.kind = "daemon_stop",
                                    !.pc = IF is_streaming THEN "d_streams" ELSE "d_ipc"])
    /\ UNCHANGED <<streams, encoders, workers, procs, ffmpeg, disc, kid, lk, files, sm_lock, conns,
                   sm_state, calls, exits, liveStarts, stoppedAll>>

\* stop(), lines 490-492: stop_streaming(), whose StreamNotRunningError is logged
daemon_stop_streams(t) ==
    LET r == th[t]
    IN  /\ r.pc = "d_streams"
        /\ IF Len(streams) = 0
           THEN Finish(t, [r EXCEPT !.pc = "d_ipc"])
           ELSE Finish(t, [r EXCEPT !.pc = "p_fetch", !.phase = "streams",
                                    !.todo = Keys(streams), !.dev = Keys(streams)[1]])
        /\ UNCHANGED <<streams, encoders, workers, procs, ffmpeg, disc, kid, lk, files, sm_lock, conns,
                       daemon, sm_state, calls, exits, liveStarts, stoppedAll>>

\* stop(), lines 494-498 and IPCServer.stop: running = False and the socket is
\* closed; the joins of the handler threads time out
daemon_stop_ipc(t) ==
    LET r == th[t]
    IN  /\ r.pc = "d_ipc"
        /\ daemon' = [daemon EXCEPT !.ipc = FALSE]
        /\ Finish(t, [r EXCEPT !.pc = "d_tcp", !.phase = "none"])
        /\ UNCHANGED <<streams, encoders, workers, procs, ffmpeg, disc, kid, lk, files, sm_lock, conns,
                       sm_state, calls, exits, liveStarts, stoppedAll>>

\* stop(), lines 500-505
daemon_stop_tcp(t) ==
    LET r == th[t]
    IN  /\ r.pc = "d_tcp"
        /\ daemon' = [daemon EXCEPT !.tcp = FALSE]
        /\ Finish(t, [r EXCEPT !.pc = "d_cleanup"])
        /\ UNCHANGED <<streams, encoders, workers, procs, ffmpeg, disc, kid, lk, files, sm_lock, conns,
                       sm_state, calls, exits, liveStarts, stoppedAll>>

\* stop(), lines 507-511: cleanup(), is_streaming() and the key list
daemon_stop_cleanup(t) ==
    LET r == th[t]
    IN  /\ r.pc = "d_cleanup"
        /\ IF Len(streams) = 0
           THEN Finish(t, [r EXCEPT !.pc = "d_done"])
           ELSE Finish(t, [r EXCEPT !.pc = "p_fetch", !.phase = "cleanup",
                                    !.todo = Keys(streams), !.dev = Keys(streams)[1]])
        /\ UNCHANGED <<streams, encoders, workers, procs, ffmpeg, disc, kid, lk, files, sm_lock, conns,
                       daemon, sm_state, calls, exits, liveStarts, stoppedAll>>

\* stop() returns
daemon_stop_return(t) ==
    /\ th[t].pc = "d_done"
    /\ daemon' = [daemon EXCEPT !.stopped = TRUE]
    /\ Finish(t, IdleThread)
    /\ UNCHANGED <<streams, encoders, workers, procs, ffmpeg, disc, kid, lk, files, sm_lock, conns,
                   sm_state, calls, exits, liveStarts, stoppedAll>>

\* _signal_handler, lines 84-87
signal_handler(t) == daemon_stop(t)

\* the thread of _handle_daemon_shutdown, lines 315-320
shutdown_thread(t) == daemon.asked /\ daemon_stop(t)

DaemonStop(t) ==
    \/ daemon_stop_ipc(t)
    \/ daemon_stop_tcp(t)
    \/ daemon_stop_cleanup(t)
    \/ daemon_stop_return(t)

\* -------------------------------------------------------------------------
\* The listeners: IPCServer, TCPControlServer and their routers
\*
\* A connection is served by a thread of its own.  A text on the wire is a
\* sequence of lexical units of JSON, a unit [k |-> "word"] for text that is
\* no JSON, and a unit [k |-> "byte"] for a byte that is no UTF-8.  recv
\* delivers the units in transit in chunks; a chunk ends between two units.
\* -------------------------------------------------------------------------
\* class Methods
STREAM_START == "stream.start"
STREAM_STOP == "stream.stop"
STREAM_STATUS == "stream.status"
DEVICES_LIST == "devices.list"
SETTINGS_GET == "settings.get"
SETTINGS_UPDATE == "settings.update"
SETTINGS_GET_AVAILABLE == "settings.get_available"
DAEMON_STATUS == "daemon.status"
DAEMON_SHUTDOWN == "daemon.shutdown"
DAEMON_PING == "daemon.ping"

\* the method table of the local listener after _register_handlers
ipc_handlers ==
    (STREAM_START :> "_handle_stream_start")
    @@ (STREAM_STOP :> "_handle_stream_stop")
    @@ (STREAM_STATUS :> "_handle_stream_status")
    @@ (DEVICES_LIST :> "_handle_devices_list")
    @@ (SETTINGS_GET :> "_handle_settings_get")
    @@ (SETTINGS_UPDATE :> "_handle_settings_update")
    @@ (SETTINGS_GET_AVAILABLE :> "_handle_settings_get_available")
    @@ (DAEMON_STATUS :> "_handle_daemon_status")
    @@ (DAEMON_PING :> "_handle_daemon_ping")
    @@ (DAEMON_SHUTDOWN :> "_handle_daemon_shutdown")

\* the method table of the TCP listener after _register_handlers
tcp_handlers(enabled) ==
    IF enabled
    THEN (STREAM_START :> "_handle_stream_start")
         @@ (STREAM_STOP :> "_handle_stream_stop")
         @@ (STREAM_STATUS :> "_handle_stream_status")
         @@ (DEVICES_LIST :> "_handle_devices_list")
         @@ (SETTINGS_GET :> "_handle_settings_get")
         @@ (SETTINGS_UPDATE :> "_handle_settings_update")
         @@ (SETTINGS_GET_AVAILABLE :> "_handle_settings_get_available")
         @@ (DAEMON_STATUS :> "_handle_daemon_status")
         @@ (DAEMON_PING :> "_handle_daemon_ping")
    ELSE <<>>

\* self._handlers of the listener of a transport
Handlers(transport) ==
    IF transport = "ipc" THEN ipc_handlers ELSE tcp_handlers(daemon.enabled)

Returns(result) == [raised |-> FALSE, result |-> result, message |-> ""]

Raises(message) == [raised |-> TRUE, result |-> JNull, message |-> message]

\* the handlers that return or raise within one step
OneStep(h) ==
    \/ h \in {"_handle_daemon_ping", "_handle_daemon_shutdown"}
    \/ h = "_handle_stream_stop" /\ Len(streams) = 0

\* handler(request.params) for a handler of OneStep
call_handler(h, params) ==
    CASE h = "_handle_daemon_ping" -> Returns(JObj(<<Item("pong", JBool(TRUE))>>))
      [] h = "_handle_daemon_shutdown" ->
            Returns(JObj(<<Item("status", JStr("shutting_down"))>>))
      [] h = "_handle_stream_stop" -> Raises("Stream not running: No streams are running")

\* self._handlers.get(request.method) hashes the method: a list or a dict
\* raises TypeError
Unhashable(v) == v.t \in {"arr", "obj"}

\* the handler of a request, "" when .get returns None
handler_of(transport, req) ==
    IF req.method.t = "str" /\ req.method.s \in DOMAIN Handlers(transport)
    THEN Handlers(transport)[req.method.s]
    ELSE ""

Traceback == JObj(<<Item("traceback", JStr("Traceback"))>>)

\* IPCServerManager._route_request for a request with a hashable method
IPCServerManager_route_request(transport, req) ==
    LET h == handler_of(transport, req)
        r == call_handler(h, req.params)
    IN  IF h = ""
        THEN create_error_response(METHOD_NOT_FOUND, "Method not found", JNull, req.id)
        ELSE IF r.raised
        THEN create_error_response(INTERNAL_ERROR, r.message, Traceback, req.id)
        ELSE success(r.result, req.id)

\* _handle_client from the decode on: the response it sends, NoResponse when
\* it sends none
handle_request(transport, data) ==
    LET p == RPCRequest_from_json(data)
    IN  IF Undecodable(data) THEN NoResponse
        ELSE IF p.raised = "JSONDecodeError"
        THEN create_error_response(PARSE_ERROR, "Invalid JSON", JNull, JNull)
        ELSE IF p.raised # "none"
        THEN create_error_response(INVALID_REQUEST, "Invalid request", JNull, JNull)
        ELSE IF Unhashable(p.req.method)
        THEN create_error_response(INTERNAL_ERROR, "Internal error: unhashable type",
                                   Traceback, p.req.id)
        ELSE IPCServerManager_route_request(transport, p.req)

\* the listener of a transport is accepting
Accepting(transport) == IF transport = "ipc" THEN daemon.ipc ELSE daemon.tcp

\* a client connects and sends all of text; obj is the request it encoded
Connect(c, transport, obj, text) ==
    /\ conns[c].pc = "unused"
    /\ Accepting(transport)
    /\ conns' = [conns EXCEPT ![c] = [NoConn EXCEPT !.pc = "recv", !.transport = transport,
                                                   !.obj = obj, !.body = text,
                                                   !.wire = text,
                                                   !.open = TRUE]]
    /\ UNCHANGED <<streams, encoders, workers, procs, ffmpeg, disc, kid, lk, files, sm_lock, daemon,
                   sm_state, th, out, calls, exits, liveStarts, stoppedAll>>

\* IPCClient.call: create_request, to_json, sendall(data + b'\n')
client_call(c, transport, obj) ==
    Connect(c, transport, obj, RPCRequest_to_json(obj) \o <<Tok("\n")>>)

\* a client that writes bytes of its own to the socket
client_send(c, transport, text) == Connect(c, transport, NoRequest, text)

\* one turn of the receive loop of _handle_client: recv returns the next n
\* units; the loop ends when the chunk ends with a newline or a closing brace
handle_client_recv(c, n) ==
    LET r == conns[c]
        chunk == SubSeq(r.wire, 1, n)
    IN  /\ r.pc = "recv"
        /\ n \in 1..Len(r.wire)
        /\ n <= BUFFER_SIZE
        /\ conns' = [conns EXCEPT ![c] =
                        [r EXCEPT !.wire = SubSeq(r.wire, n + 1, Len(r.wire)),
                                  !.data = r.data \o chunk,
                                  !.pc = IF chunk[n].k \in {"\n", "}"}
                                         THEN "received" ELSE "recv"]]
        /\ UNCHANGED <<streams, encoders, workers, procs, ffmpeg, disc, kid, lk, files, sm_lock, daemon,
                       sm_state, th, out, calls, exits, liveStarts, stoppedAll>>

\* the rest of _handle_client: decode, parse, route, send the response, close
handle_client_respond(c) ==
    LET r == conns[c]
        p == RPCRequest_from_json(r.data)
        h == handler_of(r.transport, p.req)
        resp == handle_request(r.transport, r.data)
    IN  /\ r.pc = "received"
        /\ (~Undecodable(r.data) /\ p.raised = "none" /\ ~Unhashable(p.req.method) /\ h # "")
              => OneStep(h)
        /\ conns' = [conns EXCEPT ![c] =
                        [r EXCEPT !.pc = "closed",
                                  !.req = IF Undecodable(r.data) THEN NoRequest ELSE p.req,
                                  !.resp = resp,
                                  !.inbox = IF resp = NoResponse THEN <<>>
                                            ELSE RPCResponse_to_json(resp) \o <<Tok("\n")>>,
                                  !.sent = IF resp = NoResponse THEN 0 ELSE 1,
                                  !.open = FALSE]]
        /\ daemon' = IF resp.result # JNull /\ h = "_handle_daemon_shutdown"
                     THEN [daemon EXCEPT !.asked = TRUE] ELSE daemon
        /\ UNCHANGED <<streams, encoders, workers, procs, ffmpeg, disc, kid, lk, files, sm_lock,
                       sm_state, th, out, calls, exits, liveStarts, stoppedAll>>

\* -------------------------------------------------------------------------
\* Specification
\* -------------------------------------------------------------------------
StartCfgs == {CfgDefault, CfgStudio, CfgFps999, CfgNoX, CfgZeroWidth, CfgTooLarge}

Updates == {[fps |-> 60]}

DevMenu == {Video0, Video1}

\* the steps inside start_streaming
StartStep(t) ==
    \/ start_streaming_insert(t)
    \/ start_streaming_recheck(t)
    \/ start_streaming_persist(t)
    \/ start_streaming_running(t)
    \/ start_streaming_fail(t)

\* the steps inside _stop_stream_device
StopStep(t) ==
    \/ stop_stream_device_fetch(t)
    \/ stop_stream_device_stop(t)
    \/ stop_stream_device_join(t)
    \/ stop_stream_device_inactive(t)
    \/ stop_stream_device_cleanup(t)

Request(t) ==
    \/ \E d \in DevMenu, c \in StartCfgs : start_streaming(t, d, c)
    \/ \E d \in DevMenu : stop_streaming(t, d)
    \/ stop_streaming_all(t)
    \/ cleanup(t)
    \/ \E d \in DevMenu, u \in Updates : restart_streaming(t, d, u)
    \/ \E d \in DevMenu : stream_status(t, d)

Next ==
    \/ \E t \in Threads : Request(t)
    \/ \E t \in Threads : start_streaming_check(t)
    \/ \E t \in Threads : StartStep(t)
    \/ \E t \in Threads : StopStep(t)
    \/ \E w \in 1..Len(workers) : run_encoder_fetch(w)
    \/ \E w \in 1..Len(workers) : encoder_start_spawn(w)
    \/ \E w \in 1..Len(workers) : encoder_start_raises(w)
    \/ \E w \in 1..Len(workers) : run_encoder_except(w)
    \/ \E w \in 1..Len(workers) : encoder_start_finally(w)
    \/ \E p \in 1..Len(procs) : child_exit(p)

Spec == Init /\ [][Next]_vars

\* -------------------------------------------------------------------------
\* The daemon with two streams running: the state after
\* start_streaming(Video0, CfgDefault) and start_streaming(Video1, CfgStudio)
\* have returned "started"
\* -------------------------------------------------------------------------
WarmEncoders ==
    <<[dev |-> Video0, cfg |-> StreamConfig(Video0, CfgDefault), process |-> 1, errors |-> 0],
      [dev |-> Video1, cfg |-> StreamConfig(Video1, CfgStudio), process |-> 2, errors |-> 0]>>

WarmStreams ==
    <<[dev |-> Video0, enc |-> 1, state |-> RUNNING],
      [dev |-> Video1, enc |-> 2, state |-> RUNNING]>>

WarmState ==
    set_streaming_active(
        set_streaming_active(default_state, StreamConfig(Video0, CfgDefault), 1),
        StreamConfig(Video1, CfgStudio), 2)

InitWarm ==
    /\ streams = WarmStreams
    /\ encoders = WarmEncoders
    /\ workers = <<[pc |-> "monitor", target |-> 1], [pc |-> "monitor", target |-> 2]>>
    /\ procs = <<"alive", "alive">>
    /\ ffmpeg = TRUE
    /\ sm_state = WarmState
    /\ th = [t \in Threads |-> IdleThread]
    /\ out = NoOut
    /\ calls = WarmCalls
    /\ exits = MaxExits
    /\ liveStarts = {Video0, Video1}
    /\ stoppedAll = FALSE
    /\ files = StateDir(sm_state)
    /\ sm_lock = 0
    /\ conns = [c \in Conns |-> NoConn]
    /\ daemon = RunningDaemon(FALSE)
    /\ disc = NoDiscovery
    /\ kid = NoKid
    /\ lk = NoLocks

\* Start requests only: every client starts streams on the two devices in use
\* and on a camera of its own.
OwnDevice == <<Video2, Video3, Video4>>

CapMenu(t) == {Video0, Video1, OwnDevice[t]}

CapCfgs == {CfgDefault, CfgStudio}

NextCap ==
    \/ \E t \in Threads : \E d \in CapMenu(t), c \in CapCfgs : start_streaming(t, d, c)
    \/ \E t \in Threads : StartStep(t)
    \/ \E w \in 1..Len(workers) : run_encoder_fetch(w)
    \/ \E w \in 1..Len(workers) : encoder_start_spawn(w)

SpecCap == InitWarm /\ [][NextCap]_vars

\* A daemon with no stream yet, every client starting streams on a camera of
\* its own
NextPar ==
    \/ \E t \in Threads, c \in CapCfgs : start_streaming(t, OwnDevice[t], c)
    \/ \E t \in Threads : StartStep(t)
    \/ \E w \in 1..Len(workers) : run_encoder_fetch(w)
    \/ \E w \in 1..Len(workers) : encoder_start_spawn(w)
    \/ \E w \in 1..Len(workers) : encoder_start_raises(w)
    \/ \E w \in 1..Len(workers) : run_encoder_except(w)

SpecPar == Init /\ [][NextPar]_vars

\* -------------------------------------------------------------------------
\* One client of the RPC interface, two streams running
\* -------------------------------------------------------------------------
Client == 1

\* a device path that is not on the host
Video9 == "/dev/video9"

StartParams(d, c) ==
    [device |-> d, name |-> c.name, resolution |-> c.resolution, fps |-> c.fps,
     raw_input |-> c.raw_input, groups |-> c.groups]

RpcCalls ==
    {[method |-> "stream.stop", params |-> [device |-> Video0]],
     [method |-> "stream.stop", params |-> NoParams],
     [method |-> "stream.start", params |-> StartParams(Video0, CfgDefault)],
     [method |-> "stream.start", params |-> StartParams(Video2, CfgDefault)],
     [method |-> "stream.start", params |-> StartParams(Video2, CfgNoX)],
     [method |-> "stream.start", params |-> StartParams(Video9, CfgDefault)],
     [method |-> "settings.get", params |-> NoParams],
     [method |-> "settings.update", params |-> [fps |-> 25]],
     [method |-> "settings.update", params |-> [fps |-> 25, restart_if_streaming |-> FALSE]],
     [method |-> "settings.update", params |-> [fps |-> 999]],
     [method |-> "settings.update", params |-> [resolution |-> <<>>]]}

NextRpc ==
    \/ \E q \in RpcCalls : rpc_receive(Client, q.method, q.params)
    \/ handle_stream_start(Client)
    \/ handle_stream_stop(Client)
    \/ handle_settings_get(Client)
    \/ handle_settings_update(Client)
    \/ settings_update_is_streaming(Client)
    \/ settings_update_stop(Client)
    \/ start_streaming_check(Client)
    \/ StartStep(Client)
    \/ StopStep(Client)
    \/ \E w \in 1..Len(workers) : run_encoder_fetch(w)
    \/ \E w \in 1..Len(workers) : encoder_start_spawn(w)
    \/ \E w \in 1..Len(workers) : encoder_start_finally(w)
    \/ \E p \in 1..Len(procs) : child_exit(p)

SpecRpc == InitWarm /\ [][NextRpc]_vars

\* One caller of restart_streaming, two streams running
RestartUpdates == {[fps |-> 25], [fps |-> 999], [resolution |-> T5000x480],
                   [resolution |-> T1080p]}

NextRestart ==
    \/ \E d \in DevMenu \cup {Video2}, u \in RestartUpdates : restart_streaming(Client, d, u)
    \/ start_streaming_check(Client)
    \/ StartStep(Client)
    \/ StopStep(Client)
    \/ \E w \in 1..Len(workers) : run_encoder_fetch(w)
    \/ \E w \in 1..Len(workers) : encoder_start_spawn(w)
    \/ \E w \in 1..Len(workers) : encoder_start_finally(w)
    \/ \E p \in 1..Len(procs) : child_exit(p)

SpecRestart == InitWarm /\ [][NextRestart]_vars

\* Stop requests only
NextStop ==
    \/ \E t \in Threads, d \in DevMenu \cup {Video2} : stop_streaming(t, d)
    \/ \E t \in Threads : stop_streaming_all(t)
    \/ \E t \in Threads : StopStep(t)
    \/ \E w \in 1..Len(workers) : encoder_start_finally(w)
    \/ \E p \in 1..Len(procs) : child_exit(p)

SpecStop == InitWarm /\ [][NextStop]_vars

\* The wire protocol: one client, whose request arrives in one chunk
SampleMethods == {DAEMON_PING, DAEMON_SHUTDOWN, STREAM_STOP, "nonexistent"}

SampleParams ==
    {JObj(<<>>),
     JObj(<<Item("device", JStr(Video0)), Item("resolution", JText(T1920x1080)),
            Item("fps", JNum(30)), Item("raw_input", JBool(FALSE)),
            Item("groups", JNull)>>),
     JObj(<<Item("message", JStr("hello")),
            Item("tags", JArr(<<JNum(1), JObj(<<Item("a", JArr(<<>>))>>)>>))>>)}

SampleIds == {JNum(1), JNum(2), JStr("a"), JNull}

Transports == {"ipc", "tcp"}

InitConn ==
    /\ streams = <<>>
    /\ encoders = <<>>
    /\ workers = <<>>
    /\ procs = <<>>
    /\ ffmpeg = TRUE
    /\ sm_state = set_daemon_started(default_state, DaemonPid, LaunchTime)
    /\ th = [t \in Threads |-> IdleThread]
    /\ out = NoOut
    /\ calls = MaxCalls
    /\ exits = MaxExits
    /\ liveStarts = {}
    /\ stoppedAll = FALSE
    /\ files = StateDir(sm_state)
    /\ sm_lock = 0
    /\ conns = [c \in Conns |-> NoConn]
    /\ daemon = RunningDaemon(TRUE)
    /\ disc = NoDiscovery
    /\ kid = NoKid
    /\ lk = NoLocks

NextCodec ==
    \/ \E tr \in Transports, m \in SampleMethods, p \in SampleParams, id \in SampleIds :
          client_call(Client, tr, RPCRequest(JStr(m), p, id))
    \/ handle_client_recv(Client, Len(conns[Client].wire))
    \/ handle_client_respond(Client)
    \/ shutdown_thread(Stopper)
    \/ DaemonStop(Stopper)

SpecCodec == InitConn /\ [][NextCodec]_vars

\* The listeners: concurrent clients, requests and other bytes, every chunking
RawTexts(c) ==
    {<<Tok("word"), Tok("\n")>>,
     <<Tok("byte"), Tok("\n")>>,
     <<Tok("["), TNum(c), Tok("]"), Tok("\n")>>,
     <<Tok("{"), TStr("id"), Tok(":"), TNum(c), Tok("}"), Tok("\n")>>,
     <<Tok("{"), TStr("method"), Tok(":"), TNum(c), Tok(","),
       TStr("id"), Tok(":"), TNum(c), Tok("}"), Tok("\n")>>,
     <<Tok("{"), TStr("method"), Tok(":"), Tok("["), TStr(DAEMON_PING), Tok("]"), Tok(","),
       TStr("id"), Tok(":"), TNum(c), Tok("}"), Tok("\n")>>}

NextConn ==
    \/ \E c \in Conns, tr \in Transports, m \in SampleMethods :
          client_call(c, tr, RPCRequest(JStr(m), JObj(<<>>), JNum(c)))
    \/ \E c \in Conns, tr \in Transports : \E text \in RawTexts(c) : client_send(c, tr, text)
    \/ \E c \in Conns : \E n \in 1..Len(conns[c].wire) : handle_client_recv(c, n)
    \/ \E c \in Conns : handle_client_respond(c)
    \/ shutdown_thread(Stopper)
    \/ DaemonStop(Stopper)

SpecConn == InitConn /\ [][NextConn]_vars

\* The state store: the constructor finds no state file; concurrent writers,
\* the steps of _save, and crashes
StoreOps ==
    {[name |-> "set_daemon_started", pid |-> DaemonPid, now |-> LaunchTime],
     [name |-> "set_streaming_active", cfg |-> StreamConfig(Video0, CfgStudio), pid |-> 7],
     [name |-> "set_streaming_active", cfg |-> StreamConfig(Video1, CfgDefault), pid |-> 8],
     [name |-> "set_streaming_inactive", device |-> Video0],
     [name |-> "set_streaming_inactive", device |-> NoDevice],
     [name |-> "clear_state"]}

InitStore ==
    /\ streams = <<>>
    /\ encoders = <<>>
    /\ workers = <<>>
    /\ procs = <<>>
    /\ ffmpeg = TRUE
    /\ sm_state = default_state
    /\ th = [t \in Threads |-> IF t = 1 THEN BootThread ELSE IdleThread]
    /\ out = NoOut
    /\ calls = MaxCalls
    /\ exits = MaxExits
    /\ liveStarts = {}
    /\ stoppedAll = FALSE
    /\ files = [state |-> NoFile, tmp |-> NoFile]
    /\ sm_lock = 0
    /\ conns = [c \in Conns |-> NoConn]
    /\ daemon = CreatedDaemon(FALSE)
    /\ disc = NoDiscovery
    /\ kid = NoKid
    /\ lk = NoLocks

NextStore ==
    \/ \E t \in Threads : StateManager_load(t)
    \/ \E t \in Threads : \E op \in StoreOps : store_writer(t, op)
    \/ \E t \in Threads : SaveStep(t)
    \/ crash_restart

SpecStore == InitStore /\ [][NextStore]_vars

\* The state store over the state files the constructor may find: none, text
\* that is no JSON, JSON that is no state document, a file cut short, and a
\* file the store wrote
FileMenu ==
    {NoFile,
     File(<<Tok("word")>>),
     File(<<Tok("{"), Tok("}")>>),
     File(<<Tok("["), Tok("]")>>),
     File(SubSeq(state_text(WarmState), 1, FlushUnits)),
     File(state_text(WarmState))}

InitLoad ==
    /\ streams = <<>>
    /\ encoders = <<>>
    /\ workers = <<>>
    /\ procs = <<>>
    /\ ffmpeg = TRUE
    /\ sm_state = default_state
    /\ th = [t \in Threads |-> IF t = 1 THEN BootThread ELSE IdleThread]
    /\ out = NoOut
    /\ calls = MaxCalls
    /\ exits = MaxExits
    /\ liveStarts = {}
    /\ stoppedAll = FALSE
    /\ files \in [state : FileMenu, tmp : {NoFile}]
    /\ sm_lock = 0
    /\ conns = [c \in Conns |-> NoConn]
    /\ daemon = CreatedDaemon(FALSE)
    /\ disc = NoDiscovery
    /\ kid = NoKid
    /\ lk = NoLocks

SpecLoad == InitLoad /\ [][NextStore]_vars

\* The daemon from launch to the return of stop(): one client that starts
\* streams, and a signal that stops the daemon
InitDown ==
    /\ streams = <<>>
    /\ encoders = <<>>
    /\ workers = <<>>
    /\ procs = <<>>
    /\ ffmpeg = TRUE
    /\ sm_state = default_state
    /\ th = [t \in Threads |-> IdleThread]
    /\ out = NoOut
    /\ calls = MaxCalls
    /\ exits = MaxExits
    /\ liveStarts = {}
    /\ stoppedAll = FALSE
    /\ files = StateDir(sm_state)
    /\ sm_lock = 0
    /\ conns = [c \in Conns |-> NoConn]
    /\ \E enabled \in BOOLEAN : daemon = CreatedDaemon(enabled)
    /\ disc = NoDiscovery
    /\ kid = NoKid
    /\ lk = NoLocks

NextDown ==
    \/ daemon_start
    \/ daemon_start_running
    \/ \E d \in {Video0, Video1} :
          rpc_receive(Client, STREAM_START, StartParams(d, CfgDefault))
    \/ handle_stream_start(Client)
    \/ StartStep(Client)
    \/ signal_handler(Stopper)
    \/ daemon_stop_streams(Stopper)
    \/ StopStep(Stopper)
    \/ DaemonStop(Stopper)
    \/ \E w \in 1..Len(workers) : run_encoder_fetch(w)
    \/ \E w \in 1..Len(workers) : encoder_start_spawn(w)
    \/ \E w \in 1..Len(workers) : encoder_start_finally(w)
    \/ \E p \in 1..Len(procs) : child_exit(p)

SpecDown == InitDown /\ [][NextDown]_vars

\* Discovery: beacons of two peers and other datagrams, slow callbacks, time
Host1 == <<"h", "1">>
Host2 == <<"h", "2">>

\* discovery.py lines 119-127: the announcement a publisher broadcasts
Announcement(name, host, port) ==
    JObj(<<Item("type", JStr(DISCOVERY_MESSAGE_TYPE)), Item("name", name),
           Item("hostname", JStr("pi")), Item("host", host), Item("port", port),
           Item("version", JStr("0.4.0")), Item("timestamp", JNum(0))>>)

Beacons ==
    {json_dumps(Announcement(JStr("cam"), JText(h), JNum(9023))) : h \in {Host1, Host2}}

\* datagrams that are no announcement: bytes that are no UTF-8, text that is
\* no JSON, JSON that is no object, another type, a missing field, an empty
\* name, port 0
Noise ==
    {<<Tok("byte")>>,
     <<Tok("word")>>,
     <<Tok("["), Tok("]")>>,
     json_dumps(JObj(<<Item("type", JStr("OTHER")), Item("name", JStr("cam")),
                       Item("hostname", JStr("pi")), Item("host", JText(Host1)),
                       Item("port", JNum(9023))>>)),
     json_dumps(JObj(<<Item("type", JStr(DISCOVERY_MESSAGE_TYPE)), Item("name", JStr("cam")),
                       Item("hostname", JStr("pi")), Item("host", JText(Host1))>>)),
     json_dumps(Announcement(JStr(""), JText(Host1), JNum(9023))),
     json_dumps(Announcement(JStr("cam"), JText(Host1), JNum(0)))}

Datagrams == Beacons \cup Noise

InitDisc ==
    /\ streams = <<>>
    /\ encoders = <<>>
    /\ workers = <<>>
    /\ procs = <<>>
    /\ ffmpeg = TRUE
    /\ sm_state = default_state
    /\ th = [t \in Threads |-> IdleThread]
    /\ out = NoOut
    /\ calls = MaxCalls
    /\ exits = MaxExits
    /\ liveStarts = {}
    /\ stoppedAll = FALSE
    /\ files = StateDir(sm_state)
    /\ sm_lock = 0
    /\ conns = [c \in Conns |-> NoConn]
    /\ daemon = RunningDaemon(FALSE)
    /\ \E callback \in BOOLEAN : disc = Discovery(callback, MaxTime)
    /\ kid = NoKid
    /\ lk = NoLocks

NextDisc ==
    \/ discovery_start
    \/ \E data \in Beacons : listen_recv(data)
    \/ listen_callback
    \/ cleanup_sweep
    \/ cleanup_callback
    \/ cleanup_wake
    \/ tick
    \/ discovery_stop

SpecDisc == InitDisc /\ [][NextDisc]_vars

\* The receive loop on every kind of datagram
InitRecv ==
    /\ streams = <<>>
    /\ encoders = <<>>
    /\ workers = <<>>
    /\ procs = <<>>
    /\ ffmpeg = TRUE
    /\ sm_state = default_state
    /\ th = [t \in Threads |-> IdleThread]
    /\ out = NoOut
    /\ calls = MaxCalls
    /\ exits = MaxExits
    /\ liveStarts = {}
    /\ stoppedAll = FALSE
    /\ files = StateDir(sm_state)
    /\ sm_lock = 0
    /\ conns = [c \in Conns |-> NoConn]
    /\ daemon = RunningDaemon(FALSE)
    /\ \E callback \in BOOLEAN : disc = Discovery(callback, ShortTime)
    /\ kid = NoKid
    /\ lk = NoLocks

NextRecv ==
    \/ discovery_start
    \/ \E data \in Datagrams : listen_recv(data)
    \/ listen_callback
    \/ cleanup_sweep
    \/ cleanup_wake
    \/ tick
    \/ discovery_stop

SpecRecv == InitRecv /\ [][NextRecv]_vars

\* One encoder: its child may start, obey the interrupt or not, and exit by
\* itself; every caller stops the encoder, more than once
InitKid ==
    /\ streams = <<>>
    /\ encoders = <<>>
    /\ workers = <<>>
    /\ procs = <<>>
    /\ ffmpeg = TRUE
    /\ sm_state = default_state
    /\ th = [t \in Threads |-> IdleThread]
    /\ out = NoOut
    /\ calls = MaxCalls
    /\ exits = MaxExits
    /\ liveStarts = {}
    /\ stoppedAll = FALSE
    /\ files = StateDir(sm_state)
    /\ sm_lock = 0
    /\ conns = [c \in Conns |-> NoConn]
    /\ daemon = RunningDaemon(FALSE)
    /\ disc = NoDiscovery
    /\ \E obeys \in BOOLEAN : kid = Kid("none", obeys)
    /\ lk = NoLocks

NextKid ==
    \/ kid_spawn
    \/ kid_exit
    \/ \E c \in Stoppers :
          \/ ffmpeg_stop_test(c)
          \/ ffmpeg_stop_interrupt(c)
          \/ ffmpeg_stop_wait(c)
          \/ ffmpeg_stop_timeout(c)
          \/ ffmpeg_stop_kill(c)
          \/ ffmpeg_stop_reap(c)

SpecKid == InitKid /\ [][NextKid]_vars

\* Two streams running: health checks, stops, and children that exit
NextHealth ==
    \/ \E t \in Threads : health_check(t)
    \/ \E t \in Threads : health_check_streams(t)
    \/ \E t \in Threads, d \in DevMenu : stop_streaming(t, d)
    \/ \E t \in Threads : stop_streaming_all(t)
    \/ \E t \in Threads : StopStep(t)
    \/ \E w \in 1..Len(workers) : encoder_start_finally(w)
    \/ \E p \in 1..Len(procs) : child_exit(p)

SpecHealth == InitWarm /\ [][NextHealth]_vars

\* A daemon launched over the state directory of an earlier run: there is no
\* state file, or the file is what the store wrote last, with no stream or
\* with the two streams of a run that ended without stopping them.  Once the
\* constructor has returned, clients ask for the status and the devices and
\* start and stop streams.
LaunchMenu == {NoFile, File(state_text(default_state)), File(state_text(WarmState))}

InitLaunch ==
    /\ streams = <<>>
    /\ encoders = <<>>
    /\ workers = <<>>
    /\ procs = <<>>
    /\ ffmpeg = TRUE
    /\ sm_state = default_state
    /\ th = [t \in Threads |-> IF t = 1 THEN BootThread ELSE IdleThread]
    /\ out = NoOut
    /\ calls = MaxCalls
    /\ exits = MaxExits
    /\ liveStarts = {}
    /\ stoppedAll = FALSE
    /\ files \in [state : LaunchMenu, tmp : {NoFile}]
    /\ sm_lock = 0
    /\ conns = [c \in Conns |-> NoConn]
    /\ daemon = CreatedDaemon(FALSE)
    /\ disc = NoDiscovery
    /\ kid = NoKid
    /\ lk = NoLocks

NextLaunch ==
    \/ \E t \in Threads : StateManager_load(t)
    \/ \E t \in Threads : SaveStep(t)
    \/ \E t \in Threads, d \in DevMenu : ~Booting /\ stream_status(t, d)
    \/ \E t \in Threads : ~Booting /\ devices_list(t)
    \/ \E t \in Threads, d \in DevMenu : ~Booting /\ start_streaming(t, d, CfgDefault)
    \/ \E t \in Threads, d \in DevMenu : ~Booting /\ stop_streaming(t, d)
    \/ \E t \in Threads : StartStep(t)
    \/ \E t \in Threads : StopStep(t)
    \/ \E w \in 1..Len(workers) : run_encoder_fetch(w)
    \/ \E w \in 1..Len(workers) : encoder_start_spawn(w)
    \/ \E w \in 1..Len(workers) : encoder_start_finally(w)

SpecLaunch == InitLaunch /\ [][NextLaunch]_vars

\* Two streams running: one client restarts /dev/video0, the others start it
NextRace ==
    \/ restart_streaming(Client, Video0, [fps |-> 25])
    \/ \E t \in Threads \ {Client} : start_streaming(t, Video0, CfgStudio)
    \/ \E t \in Threads : start_streaming_check(t)
    \/ \E t \in Threads : StartStep(t)
    \/ \E t \in Threads : StopStep(t)
    \/ \E w \in 1..Len(workers) : run_encoder_fetch(w)
    \/ \E w \in 1..Len(workers) : encoder_start_spawn(w)
    \/ \E w \in 1..Len(workers) : encoder_start_finally(w)

SpecRace == InitWarm /\ [][NextRace]_vars

\* The lock of the stream table: request threads in every call, the encoder
\* threads they start; a thread that can take a step is scheduled in the end
InitLock ==
    /\ streams = <<>>
    /\ encoders = <<>>
    /\ workers = <<>>
    /\ procs = <<>>
    /\ ffmpeg = TRUE
    /\ sm_state = default_state
    /\ th = [t \in Threads |-> IdleThread]
    /\ out = NoOut
    /\ calls = 0
    /\ exits = 0
    /\ liveStarts = {}
    /\ stoppedAll = FALSE
    /\ files = StateDir(sm_state)
    /\ sm_lock = 0
    /\ conns = [c \in Conns |-> NoConn]
    /\ daemon = RunningDaemon(FALSE)
    /\ disc = NoDiscovery
    /\ kid = NoKid
    /\ lk = Locks(MaxCalls)

NextLock ==
    \/ \E t \in Callers, op \in LockOps : lock_call(t, op)
    \/ \E t \in Callers \cup Runners : lock_acquire(t)
    \/ \E t \in Callers \cup Runners : lock_release(t)
    \/ \E t \in Callers : lock_thread_start(t)
    \/ \E r \in Runners : lock_spawn(r)
    \/ \E r \in Runners : lock_monitor(r)
    \/ \E t \in Callers : lock_stop(t)
    \/ \E t \in Callers : lock_join(t)
    \/ \E t \in Callers \cup Runners : lock_return(t)

SpecLock == InitLock /\ [][NextLock]_vars /\ WF_vars(NextLock)

\* -------------------------------------------------------------------------
\* Properties
\* -------------------------------------------------------------------------
\* thread t takes a step
Steps(t) == th'[t] # th[t]

\* thread t's step is the arrival of a request of the given kind
Arrives(t, kind) ==
    /\ th[t].pc = "idle"
    /\ calls' = calls - 1
    /\ th'[t].kind = kind \/ (out'.thread = t /\ out'.ret.call = kind)

\* the device named by the request arriving in thread t's step
ArrivingDevice(t) == IF out'.thread = t THEN out'.ret.device ELSE th'[t].dev

Quiescent == \A t \in Threads : th[t].pc = "idle"

\* C1: the stream table never holds more than MAX_STREAMS rows, whatever the
\* interleaving of the requests.
C1_TableWithinCapacity == Len(streams) <= MAX_STREAMS

\* C2: an encoder child is alive only if the table has a row for its device
\* and that row's encoder is the child's encoder.
C2_LiveChildHasRow ==
    \A p \in 1..Len(procs) :
        procs[p] = "alive" =>
            LET e == workers[p].target
            IN  /\ HasRow(streams, encoders[e].dev)
                /\ Row(streams, encoders[e].dev).enc = e

\* C3: starting from the default state, whenever no supervisor operation is in
\* progress the devices of the persisted streams map are the devices of the
\* table.
C3_PersistedMatchesTable == Quiescent => DOMAIN sm_state.streams = KeySet(streams)

\* C4: a Running row has a live child; once the child has exited and the
\* encoder thread that watched it has returned, the row is no longer Running.
C4_RunningHasLiveChild ==
    \A i \in 1..Len(streams) :
        streams[i].state = RUNNING =>
            LET e == streams[i].enc
            IN  \/ ProcessAlive(e)
                \/ /\ encoders[e].process # 0
                   /\ workers[encoders[e].process].pc = "monitor"

\* the persisted entry of c's device and last_config are those of stream c
\* with child pid
Persisted(st, c, pid) ==
    /\ c.device \in DOMAIN st.streams
    /\ st.streams[c.device].stream_name = c.name
    /\ st.streams[c.device].resolution = resolution(c.width, c.height)
    /\ st.streams[c.device].fps = c.fps
    /\ st.streams[c.device].raw_input = c.raw_input
    /\ st.streams[c.device].groups = c.groups
    /\ st.streams[c.device].ffmpeg_pid = pid
    /\ st.last_config.device = c.device
    /\ st.last_config.resolution = resolution(c.width, c.height)
    /\ st.last_config.fps = c.fps
    /\ st.last_config.raw_input = c.raw_input

C6_StatusAfterStart ==
    (out.ret.call = "status" /\ out.ret.after_start) =>
        /\ out.ret.result.streaming
        /\ "device" \in DOMAIN out.ret.result
        /\ out.ret.result.device = out.ret.device

\* C7: a start on a device that has a row, or while the table holds
\* MAX_STREAMS rows, fails with StreamAlreadyRunning and changes neither the
\* table, nor the encoders and their children, nor the persisted state.
C7_BusyStartRejected ==
    [][\A t \in Threads :
          (Arrives(t, "start")
             /\ (HasRow(streams, ArrivingDevice(t)) \/ Len(streams) >= MAX_STREAMS)) =>
              /\ out' = [thread |-> t,
                         ret |-> ErrorRet("start", ArrivingDevice(t), "StreamAlreadyRunning")]
              /\ th'[t] = IdleThread
              /\ UNCHANGED <<streams, encoders, workers, procs, sm_state>>]_vars

\* a start on a free device was refused because the table is full
C7_Witness ==
    /\ out.ret.status = "error"
    /\ out.ret.call = "start"
    /\ out.ret.error = "StreamAlreadyRunning"
    /\ ~HasRow(streams, out.ret.device)
    /\ Len(streams) = MAX_STREAMS

\* fps in 1..120 and resolution WxH with both dimensions in 1..4096
ValidStart(c) ==
    /\ c.fps >= 1
    /\ c.fps <= 120
    /\ ResolutionParses(c.resolution)
    /\ from_resolution_string(c.resolution).width >= 1
    /\ from_resolution_string(c.resolution).width <= 4096
    /\ from_resolution_string(c.resolution).height >= 1
    /\ from_resolution_string(c.resolution).height <= 4096

\* C8: a stream.start with fps outside 1..120 or a resolution that is not WxH
\* with dimensions in 1..4096 is rejected with InvalidConfiguration, and no
\* row is inserted, no encoder created and the persisted state is unchanged.
C8_InvalidStartRejected ==
    [][\A t \in Threads :
          (th[t].pc = "s_insert" /\ th[t].kind = "start" /\ Steps(t)
             /\ ~ValidStart(th[t].cfg)) =>
              /\ out' = [thread |-> t,
                         ret |-> ErrorRet("start", th[t].dev, "InvalidConfiguration")]
              /\ UNCHANGED <<streams, encoders, workers, procs, sm_state>>]_vars

\* C9: when _stop_stream_device(d) completes, on any stop path, the table has
\* no row for d and the persisted streams map has no entry for d.
C9_StoppedIsGone ==
    [][\A t \in Threads :
          (Steps(t) /\ (th[t].pc = "p_cleanup"
                          \/ (th[t].pc = "p_fetch" /\ th'[t].pc # "p_stopenc"))) =>
              /\ ~HasRow(streams', th[t].dev)
              /\ th[t].dev \notin DOMAIN sm_state'.streams]_vars

\* C10: a stop_streaming() that follows a stop_streaming() with no start in
\* between, and a stop_streaming(d) on a device with no row, raise
\* StreamNotRunning and leave the table and the persisted state as they were.
C10_StopNothingRunning ==
    [][\A t \in Threads :
          /\ (Arrives(t, "stop_all") /\ stoppedAll) =>
                /\ out' = [thread |-> t,
                           ret |-> ErrorRet("stop_all", NoDevice, "StreamNotRunning")]
                /\ th'[t] = IdleThread
                /\ UNCHANGED <<streams, encoders, workers, procs, sm_state>>
          /\ (Arrives(t, "stop") /\ ~HasRow(streams, ArrivingDevice(t))) =>
                /\ out' = [thread |-> t,
                           ret |-> ErrorRet("stop", ArrivingDevice(t), "StreamNotRunning")]
                /\ th'[t] = IdleThread
                /\ UNCHANGED <<streams, encoders, workers, procs, sm_state>>]_vars

\* the second of two consecutive stop_streaming() calls has just been refused
C10_Witness ==
    /\ stoppedAll
    /\ out.ret = ErrorRet("stop_all", NoDevice, "StreamNotRunning")
    /\ streams = <<>>
    /\ DOMAIN sm_state.streams = {}

\* the row, the encoder child and the persisted entry of device d are the same
\* after the step as before
DeviceUntouched(d) ==
    /\ HasRow(streams', d) = HasRow(streams, d)
    /\ HasRow(streams, d) => Row(streams', d) = Row(streams, d)
    /\ (d \in DOMAIN sm_state'.streams) = (d \in DOMAIN sm_state.streams)
    /\ d \in DOMAIN sm_state.streams => sm_state'.streams[d] = sm_state.streams[d]
    /\ \A p \in 1..Len(procs) : encoders[p].dev = d => procs'[p] = procs[p]

\* C11: a stream.stop request that names a device stops only that device's
\* stream: no step of the request changes the row, the encoder child or the
\* persisted entry of any other device.
C11_StopNamedDeviceOnly ==
    [][\A t \in Threads :
          (Steps(t) /\ th[t].method = "stream.stop" /\ "device" \in DOMAIN th[t].params) =>
              \A d \in Devices \ {th[t].params.device} : DeviceUntouched(d)]_vars

\* C12: a restart_streaming whose merged configuration violates the rules of
\* Start (resolution WxH with dimensions in 1..4096, fps in 1..120) fails
\* without touching the live stream: no step of the call changes the device's
\* row, its encoder child or its persisted entry.
C12_InvalidRestartTouchesNothing ==
    [][\A t \in Threads :
          (Steps(t) /\ th[t].kind = "restart" /\ ~ValidStart(th[t].cfg)) =>
              DeviceUntouched(th[t].dev)]_vars

\* C14: the "restart failed and rollback failed" error is raised only when the
\* rollback start itself failed; a rollback start that succeeded gives the
\* "restart failed, rolled back" error.
C14_RollbackOutcomeTold ==
    (out.ret.call = "restart" /\ out.ret.status = "error"
       /\ out.ret.error = "RestartFailedRollbackFailed") =>
        out.ret.rollback # "RestartFailedRolledBack"

\* C15: when the start with the new settings and the rollback start have both
\* failed, the device has no row, no live encoder child and no persisted
\* entry.
C15_BothFailedLeavesIdle ==
    (out.ret.call = "restart" /\ out.ret.status = "error"
       /\ out.ret.error = "RestartFailedRollbackFailed"
       /\ out.ret.rollback # "RestartFailedRolledBack") =>
        /\ ~HasRow(streams, out.ret.device)
        /\ out.ret.device \notin DOMAIN sm_state.streams
        /\ \A p \in 1..Len(procs) : encoders[p].dev = out.ret.device => procs[p] # "alive"

\* C13: when a settings.update with restart_if_streaming has stopped the old
\* encoder and the encoder started with the new parameters exits, the client
\* receives an error and the device's stream is Running again, its encoder
\* child alive.
C13_FailedUpdateRollsBack ==
    (out.ret.call = "rpc" /\ out.ret.method = "settings.update"
       /\ out.ret.status = "error" /\ out.ret.cause.error = "FFmpegFailed"
       /\ procs[Len(procs)] = "exited") =>
        /\ HasRow(streams, out.ret.cause.device)
        /\ Row(streams, out.ret.cause.device).state = RUNNING
        /\ ProcessAlive(Row(streams, out.ret.cause.device).enc)

\* the update names an unknown device, a resolution that is not WxH with
\* dimensions in 1..4096, an fps outside 1..120 or an empty name
InvalidUpdate(p) ==
    \/ "device" \in DOMAIN p /\ p.device \notin Devices
    \/ "resolution" \in DOMAIN p
         /\ ~ValidStart([resolution |-> p.resolution, fps |-> 1])
    \/ "fps" \in DOMAIN p /\ (p.fps < 1 \/ p.fps > 120)
    \/ "name" \in DOMAIN p /\ p.name = ""

\* C16: a settings.update with invalid parameters, served while streams are
\* running, answers with an error and no step of it changes the stream table,
\* an encoder child or the persisted state.
C16_InvalidUpdateChangesNothing ==
    [][\A t \in Threads :
          (Steps(t) /\ th[t].method = "settings.update" /\ InvalidUpdate(th[t].params)
             /\ Len(streams) > 0) =>
              /\ UNCHANGED <<streams, procs, sm_state>>
              /\ out'.thread = t => out'.ret.status = "error"]_vars

\* C17: when a settings.update answers without restarting a stream, the
\* persisted last-config holds the merged device, resolution, fps and
\* raw_input it returns.
C17_UpdateIsPersisted ==
    (out.ret.call = "rpc" /\ out.ret.method = "settings.update" /\ out.ret.status = "ok"
       /\ out.ret.result.status \in {"saved_for_next_start", "updated"}) =>
        /\ get_last_config(sm_state).device = out.ret.result.settings.device
        /\ get_last_config(sm_state).resolution = out.ret.result.settings.resolution
        /\ get_last_config(sm_state).fps = out.ret.result.settings.fps
        /\ get_last_config(sm_state).raw_input = out.ret.result.settings.raw_input

\* C18: with streams on two or more devices, no step of a settings.update that
\* restarts changes the row, the encoder child or the persisted entry of a
\* device other than the one the merged settings name.
C18_UpdateRestartsNamedDeviceOnly ==
    [][\A t \in Threads :
          (Steps(t) /\ th[t].kind = "update" /\ Len(streams) >= 2) =>
              \A d \in Devices \ {th[t].settings.device} : DeviceUntouched(d)]_vars

\* C19: while the state store holds an active stream, get_streaming_info()
\* reports active true and settings.get answers streaming: true.
C19_SettingsReportLiveStream ==
    (out.ret.call = "rpc" /\ out.ret.method = "settings.get" /\ out.ret.status = "ok"
       /\ DOMAIN sm_state.streams # {}) =>
        /\ Get(get_streaming_info(sm_state, NoDevice), "active", FALSE)
        /\ out.ret.result.settings.streaming

\* the wire code of each error
WireCode(e) ==
    CASE e = "StreamAlreadyRunning" -> STREAM_ALREADY_RUNNING
      [] e = "StreamNotRunning" -> STREAM_NOT_RUNNING
      [] e = "DeviceNotFound" -> DEVICE_NOT_FOUND
      [] e = "InvalidConfiguration" -> INVALID_CONFIGURATION
      [] e = "FFmpegFailed" -> FFMPEG_ERROR
      [] OTHER -> INTERNAL_ERROR

\* C20: an error response carries the wire code of the domain error the
\* handler raised, and the internal-error code for any other exception.
C20_DomainErrorCodes ==
    (out.ret.call = "rpc" /\ out.ret.status = "error") =>
        out.ret.code = WireCode(out.ret.cause.error)

\* ---- the wire protocol and the listeners ----
\* the code of an error response, 0 for a success response
ErrorCode(resp) == IF resp.error = JNull THEN 0 ELSE GetItem(resp.error, "code").n

RequestRoundTrip(obj) ==
    LET p == RPCRequest_from_json(RPCRequest_to_json(obj))
    IN  /\ p.raised = "none"
        /\ p.req.method = obj.method
        /\ p.req.params = obj.params
        /\ p.req.id = obj.id

ResponseRoundTrip(resp) ==
    LET text == RPCResponse_to_json(resp)
        p == RPCResponse_from_json(text)
        d == json_loads(text).v
    IN  /\ p.raised = "none"
        /\ p.resp.id = resp.id
        /\ p.resp.result = resp.result
        /\ p.resp.error = resp.error
        /\ HasKey(d, "result") # HasKey(d, "error")

\* C24: a request encoded by to_json and parsed by from_json has the same
\* method, params and id; a success or error response encoded and parsed has
\* the same id, result and error, and its encoding carries exactly one of the
\* keys result and error.
C24_EncodeParseInverse ==
    \A c \in Conns :
        /\ conns[c].obj # NoRequest =>
              /\ RequestRoundTrip(conns[c].obj)
              /\ (conns[c].pc = "closed" /\ conns[c].wire = <<>>) =>
                    conns[c].req = conns[c].obj
        /\ conns[c].resp # NoResponse => ResponseRoundTrip(conns[c].resp)

\* a request with several params and a text id has been answered with an
\* error response that carries data
C24_Witness ==
    \E c \in Conns :
        /\ conns[c].pc = "closed"
        /\ Len(conns[c].obj.params.o) > 1
        /\ conns[c].obj.id = JStr("a")
        /\ conns[c].resp.id = JStr("a")
        /\ ErrorCode(conns[c].resp) = INTERNAL_ERROR
        /\ HasKey(conns[c].resp.error, "data")

\* the outcome the server owes to a request body
Conforming(v) == v.t = "obj" /\ HasKey(v, "method")

Expected(transport, body) ==
    LET r == json_loads(body)
        p == RPCRequest_from_json(body)
        h == handler_of(transport, p.req)
        x == call_handler(h, p.req.params)
    IN  IF Undecodable(body) \/ ~r.ok THEN [code |-> PARSE_ERROR, result |-> JNull]
        ELSE IF ~Conforming(r.v) THEN [code |-> INVALID_REQUEST, result |-> JNull]
        ELSE IF h = "" THEN [code |-> METHOD_NOT_FOUND, result |-> JNull]
        ELSE IF x.raised THEN [code |-> INTERNAL_ERROR, result |-> JNull]
        ELSE [code |-> 0, result |-> x.result]

\* the server has read all of the body of connection c and has closed it
ServedWhole(c) == conns[c].pc = "closed" /\ conns[c].wire = <<>>

\* C21: every request body gets exactly one of the outcomes: -32700 when it is
\* not valid JSON, -32600 when it is JSON but no conforming request, -32601 when
\* its method has no registered handler, -32603 with the exception's message
\* when the handler raises, and otherwise a success response with the
\* handler's result.
C21_RequestClassified ==
    \A c \in Conns :
        ServedWhole(c) =>
            LET e == Expected(conns[c].transport, conns[c].body)
                resp == conns[c].resp
            IN  /\ conns[c].sent = 1
                /\ ErrorCode(resp) = e.code
                /\ resp.result = e.result
                /\ e.code = INTERNAL_ERROR =>
                      GetItem(resp.error, "message") =
                          JStr(call_handler(handler_of(conns[c].transport, conns[c].req),
                                            conns[c].req.params).message)

\* the id of the request a client wrote, null when the body has none
SentId(body) ==
    LET r == json_loads(body)
    IN  IF ~Undecodable(body) /\ r.ok /\ r.v.t = "obj" THEN JGet(r.v, "id", JNull)
        ELSE JNull

\* C22: with concurrent connections, each connection on which a request
\* arrived gets exactly one response and is closed, and the response has the id
\* of the request sent on that connection.
C22_OneResponsePerConnection ==
    \A c \in Conns :
        conns[c].pc = "closed" =>
            /\ conns[c].sent = 1
            /\ ~conns[c].open
            /\ LET p == RPCResponse_from_json(conns[c].inbox)
               IN  p.raised = "none" /\ p.resp.id = SentId(conns[c].body)

\* C23: a well-formed request that ends with a newline gets the same response
\* however recv splits it into chunks, and never a parse error.
C23_ChunkingIsInvisible ==
    \A c \in Conns :
        (conns[c].pc = "closed" /\ conns[c].obj # NoRequest) =>
            /\ conns[c].resp = handle_request(conns[c].transport, conns[c].body)
            /\ ErrorCode(conns[c].resp) # PARSE_ERROR

\* C30: with network control enabled, a request gets the same response on
\* the local listener and on the TCP listener.
C30_SameTableOnBothTransports ==
    daemon.enabled =>
        \A c, d \in Conns :
            (ServedWhole(c) /\ ServedWhole(d) /\ conns[c].obj # NoRequest
               /\ conns[c].obj.method = conns[d].obj.method
               /\ conns[c].obj.params = conns[d].obj.params)
            => /\ ErrorCode(conns[c].resp) = ErrorCode(conns[d].resp)
               /\ conns[c].resp.result = conns[d].resp.result

\* ---- the state file ----
\* text is the complete serialization of a state document
Complete(text) ==
    LET r == json_loads(text)
    IN  /\ r.ok
        /\ IsStateDoc(r.v)
        /\ json_dumps(state_doc(state_from_doc(r.v))) = text

\* thread t's step ends the constructor's _load
Loads(t) == th[t].pc = "load" /\ th'[t].pc # "load"

\* C25: the constructor never fails on the content of the state file; from
\* an absent or unusable file the store starts with the default document and
\* every later operation succeeds; from a file a previous instance wrote it
\* loads the state of that file.
C25_LoadNeverFails ==
    [][/\ \A t \in Threads :
             Loads(t) =>
                 IF files.state.exists /\ Complete(files.state.text)
                 THEN /\ ~IsRaw(sm_state')
                      /\ state_text(sm_state') = files.state.text
                 ELSE sm_state' = default_state
       /\ out'.ret.status # "error"]_vars

\* C26: the state file is absent or the complete serialization of a state
\* document at every instant, crashes and concurrent writers included; it
\* changes only by the rename that ends a save, to the serialization of the
\* state the store holds at the end of that write.
C26_StateFileNeverPartial ==
    /\ [](files.state.exists => Complete(files.state.text))
    /\ [][files.state' # files.state =>
             \E t \in Threads :
                 /\ th[t].pc = "save_replace"
                 /\ th'[t].pc = "idle"
                 /\ files.state' = File(state_text(sm_state'))]_vars

\* the process has been killed in the middle of a save: state.tmp holds part
\* of a document next to a state file, and the constructor runs again
C26_Witness ==
    /\ files.state.exists
    /\ files.tmp.exists
    /\ files.tmp.text # <<>>
    /\ ~json_loads(files.tmp.text).ok
    /\ th[1].pc = "load"

\* ---- the shutdown of the daemon ----
\* the daemon record in the state file
PersistedDaemon == load_file(files.state).daemon

\* C27: the persisted daemon record is set at launch, and after stop() has
\* returned its started_at and pid are null.
C27_DaemonRecordCleared ==
    /\ (daemon.main # "init" /\ ~daemon.stopped) =>
          PersistedDaemon = [started_at |-> LaunchTime, pid |-> DaemonPid]
    /\ daemon.stopped => PersistedDaemon = [started_at |-> None, pid |-> 0]

\* stop() is stopping the streams, or has stopped them and has not yet
\* stopped the listeners
StoppingStreams ==
    \E t \in Threads : th[t].kind = "daemon_stop" /\ th[t].phase = "streams"

\* the step admits a request: a listener accepts it and routes it
Admits(t) == th[t].pc = "idle" /\ th'[t].pc = "routed"

\* C28: from the moment stop() begins to stop streams until the listeners
\* are stopped, no request is admitted.
C28_NoAdmissionWhileStopping ==
    [][StoppingStreams => \A t \in Threads : ~Admits(t)]_vars

\* C29: once stop() has returned, the stream table is empty, no encoder
\* child is alive and the persisted streams map is empty, whatever requests
\* were in flight or arrived during the shutdown.
C29_NothingLeftAfterStop ==
    daemon.stopped =>
        /\ streams = <<>>
        /\ \A p \in 1..Len(procs) : procs[p] # "alive"
        /\ DOMAIN load_file(files.state).streams = {}

\* ---- service discovery ----
\* the number of calls of the callback with this event type
Emitted(type) == Len(SelectSeq(disc.events, LAMBDA e : e.type = type))

\* the step is a sweep of the cleanup loop
Sweeps == disc.sweep.pc = "sweep" /\ disc'.sweep.pc # "sweep" /\ disc'.running

\* C31: a peer whose last beacon is more than DISCOVERY_TIMEOUT old is gone
\* from the table one sweep period later at the latest; every entry the
\* sweep deletes is reported by one removed event; and a sweep deletes no
\* entry whose last beacon is at most DISCOVERY_TIMEOUT old.
C31_StalePeerRemovedInTime ==
    /\ [](\A i \in 1..Len(disc.services) :
            disc.now - disc.services[i].last_seen <= DISCOVERY_TIMEOUT + SWEEP_PERIOD)
    /\ [](disc.callback =>
            disc.gone = Emitted("removed") + Len(disc.sweep.removed))
    /\ [][Sweeps =>
            \A i \in 1..Len(disc.services) :
                disc.now - disc.services[i].last_seen <= DISCOVERY_TIMEOUT =>
                    \E j \in 1..Len(disc'.services) :
                        disc'.services[j] = disc.services[i]]_vars

\* the step takes a datagram from the socket
Receives == disc'.received = disc.received + 1

RECURSIVE Tracked(_)
Tracked(events) ==
    IF events = <<>> THEN {}
    ELSE LET e == events[Len(events)]
             before == Tracked(SubSeq(events, 1, Len(events) - 1))
         IN  IF e.type = "removed" THEN before \ {e.key} ELSE before \cup {e.key}

\* the events of one key
EventsOf(key) == SelectSeq(disc.events, LAMBDA e : e.key = key)

\* C40: the events of one key come in the order of the changes of the table:
\* added first, removed only for a peer that is known, added only for a
\* peer that is not; and once every event is delivered, the peers a client
\* has tracked from the events are the peers of the table.
C40_EventsFollowTheTable ==
    /\ \A i \in 1..Len(disc.events) :
           LET own == EventsOf(disc.events[i].key)
           IN  \A j \in 1..Len(own) :
                   LET known == j > 1 /\ own[j - 1].type # "removed"
                   IN  IF own[j].type = "added" THEN ~known ELSE known
    /\ (disc.running /\ disc.callback /\ disc.listen.pc # "callback"
            /\ disc.sweep.pc # "callback") =>
          Tracked(disc.events) = {disc.services[i].key : i \in 1..Len(disc.services)}

\* ---- FFmpegEncoder.stop ----
\* stop() of caller c returns in this step
StopReturns(c) == kid.pc[c] # "returned" /\ kid'.pc[c] = "returned"

\* C39: when stop() returns, the child is not alive, and a child that was
\* started has been reaped; a child that has not exited by the end of the
\* wait is killed; stop() on an encoder that was never started or whose
\* child has exited sends no signal; and whatever callers stop the encoder
\* at the same time, the child is reaped once.
C39_StopLeavesNoChild ==
    /\ [](kid.reaps <= 1 /\ (kid.reaps = 1 <=> kid.child = "reaped"))
    /\ [][\A c \in Stoppers :
            /\ StopReturns(c) =>
                  /\ kid'.child # "alive"
                  /\ kid'.process => kid'.child = "reaped"
            /\ (kid'.stops[c] # kid.stops[c] /\ kid.child # "alive") =>
                  /\ kid'.pc[c] = "returned"
                  /\ kid'.interrupts = kid.interrupts
                  /\ kid'.kills = kid.kills
            /\ (kid.pc[c] = "wait" /\ kid.child = "alive" /\ kid'.pc[c] # "wait") =>
                  kid'.pc[c] = "kill"]_vars

\* a child that ignores the interrupt has been killed by one caller while
\* another caller was inside stop(), and all callers have returned
C39_Witness ==
    /\ ~kid.obeys
    /\ kid.kills > 0
    /\ kid.interrupts > 1
    /\ kid.child = "reaped"
    /\ \A c \in Stoppers : kid.pc[c] = "returned"

\* ---- health ----
\* the step is the return of a health check
Health == out'.ret.call = "health"

\* the child of the Running row of device d has exited
LateDeath(d) ==
    /\ HasRow(streams, d)
    /\ Row(streams, d).state = RUNNING
    /\ encoders[Row(streams, d).enc].process # 0
    /\ procs[encoders[Row(streams, d).enc].process] = "exited"

\* no row is in Error, every Running row has a live child, no row has errors
AllWell ==
    \A i \in 1..Len(streams) :
        /\ streams[i].state # ERROR
        /\ streams[i].state = RUNNING =>
              /\ encoders[streams[i].enc].process # 0
              /\ procs[encoders[streams[i].enc].process] = "alive"
        /\ encoders[streams[i].enc].errors = 0

\* C33: a stream whose child has exited keeps its row until it is stopped,
\* and every health check made while the row is Running with a dead child
\* reports healthy false and an issue naming the device; when all is well
\* the health check reports healthy true and no issues.
C33_HealthReportsLateDeath ==
    /\ [](\A d \in liveStarts : HasRow(streams, d))
    /\ [][Health =>
            /\ \A d \in Devices :
                  LateDeath(d) =>
                      /\ ~out'.ret.healthy
                      /\ \E i \in 1..Len(out'.ret.issues) : out'.ret.issues[i].device = d
            /\ AllWell => out'.ret.healthy /\ out'.ret.issues = <<>>]_vars

\* a health check has reported the late death of the child of /dev/video0
\* while the stream of /dev/video1 is being stopped
C33_Witness ==
    /\ out.ret.call = "health"
    /\ ~out.ret.healthy
    /\ out.ret.issues = <<Issue(Video0, "FFmpeg process died unexpectedly")>>
    /\ Video0 \in liveStarts
    /\ HasRow(streams, Video1)
    /\ Row(streams, Video1).state = STOPPING

\* ---- failing starts ----
\* thread t takes a step of a start that fails: the probe or the configuration
\* is rejected, the re-check finds no live child, or the handler cleans up
FailingStart(t) ==
    /\ th'[t] # th[t]
    /\ \/ th[t].pc = "s_insert" /\ th'[t].pc # "s_recheck"
       \/ th[t].pc = "s_recheck" /\ th'[t].pc = "s_fail"
       \/ th[t].pc = "s_fail"

\* C35: a start that fails removes or alters no row but the one it inserted,
\* and leaves the encoders and the persisted state as they are.
C35_FailedStartTouchesOwnRowOnly ==
    [][\A t \in Threads :
         FailingStart(t) =>
             /\ \A i \in 1..Len(streams) :
                   \/ th[t].pc # "s_insert" /\ streams[i].enc = th[t].enc
                   \/ \E j \in 1..Len(streams') : streams'[j] = streams[i]
             /\ encoders' = encoders
             /\ sm_state' = sm_state]_vars

\* ---- the states of a row ----
\* the state of the row of encoder e, "none" when the table has no such row
StateOf(tbl, e) ==
    IF \E i \in 1..Len(tbl) : tbl[i].enc = e
    THEN tbl[CHOOSE i \in 1..Len(tbl) : tbl[i].enc = e].state
    ELSE "none"

\* C37: a row is created in Starting, becomes Running from Starting, goes
\* from Running to Error or Stopping, is marked Stopping before its encoder
\* is stopped, and is removed only from Stopping or by a start that failed.
C37_RowsFollowTheStateMachine ==
    [][\A e \in 1..Len(encoders') :
         \A a \in {StateOf(streams, e)}, b \in {StateOf(streams', e)} :
             a # b =>
                 \/ a = "none" /\ b = STARTING
                 \/ a = STARTING /\ b \in {RUNNING, ERROR, STOPPING}
                 \/ a = RUNNING /\ b \in {ERROR, STOPPING}
                 \/ a = ERROR /\ b = STOPPING
                 \/ a = STOPPING /\ b = "none"
                 \/ b = "none" /\ \E t \in Threads : FailingStart(t)]_vars

\* ---- what a fresh daemon reports ----
\* the devices that have a row
RowDevices == {streams[i].dev : i \in 1..Len(streams)}

\* C38: the aggregate status lists exactly the devices that have a row (an
\* empty table gives streaming false and stream_count 0), and devices.list
\* marks in_use exactly the devices that have a row, whatever the state file
\* held when the daemon was launched.
C38_StatusFollowsTheTable ==
    [][/\ out'.ret.call = "status" =>
            /\ out'.ret.result.streams = RowDevices
            /\ out'.ret.result.stream_count = Len(streams)
            /\ out'.ret.result.streaming = (Len(streams) > 0)
       /\ out'.ret.call = "devices" =>
            \A d \in Devices : out'.ret.result[d].in_use = (d \in RowDevices)]_vars

\* ---- operations on one device ----
\* thread t is inside restart_streaming, its stop has returned and its start
\* with the new settings has not yet made the busy check
InRestartGap(t) == th[t].kind = "restart" /\ th[t].pc = "s_check" /\ th[t].phase = "new"

\* C34: operations on one device take effect one at a time; in particular,
\* between the stop and the start of a restart no other request has claimed
\* the device: the device has no row until the restart's own start inserts it.
C34_RestartKeepsTheDevice ==
    \A t \in Threads : InRestartGap(t) => ~HasRow(streams, th[t].dev)

\* ---- the lock of the stream table ----
\* C36: the thread that holds the lock is at the exit of its with block: it
\* is not about to spawn, stop, join or acquire; and every call returns.
C36_LockNeverHeldAcrossDriverCalls ==
    /\ [](\A t \in Callers \cup Runners : lk.state_lock = t => Instr(t) = "release")
    /\ <>[](\A t \in Callers : lk.at[t] = NotCalling)

\* one thread is inside encoder.stop() while another one holds the lock
C36_Witness ==
    \E t, u \in Callers :
        /\ Instr(t) = "stop"
        /\ lk.state_lock = u
        /\ u # t
        /\ lk.at[u].code = <<"release">> \o Block

====
